---- MODULE Spec2Model ----
(***************************************************************************)
(* A model of stagescript's Tokenizer (src/stagescript/tokenizer.py) and   *)
(* of the document model it builds (src/stagescript/entities.py).          *)
(*                                                                         *)
(* A text is a sequence of one-character strings.  A file is a sequence of *)
(* physical lines; every physical line ends with a newline.  The text of a *)
(* file is fixed before the parse starts; the model determines it line by  *)
(* line, the first time the scan needs the line (WriteLine, CloseFile), so *)
(* that parses of files with a common prefix share their states.  A file   *)
(* that is read again (a second include) is read as it was determined.     *)
(***************************************************************************)
EXTENDS Integers, Sequences, FiniteSets, TLC

VARIABLES
    dry_run,        \* Tokenizer.dry_run: TRUE is lint mode, FALSE is strict mode
    files,          \* the file system: resolved path -> physical lines
    closed,         \* path -> the file has no lines beyond those in files
    frames,         \* the active tokenize() generators, innermost last
    status,         \* "running", "returned" (a StageScript) or "raised"
    error,          \* the exception that left Tokenizer.parse
    play_name,      \* Tokenizer.play_name
    metadata,       \* Tokenizer.metadata: key -> Metadata
    characters,     \* Tokenizer.characters: handle -> Character
    violations,     \* Tokenizer.violations
    include_stack,  \* Tokenizer._include_stack
    current_act,    \* Tokenizer._current_act: a node id, 0 is None
    current_scene,  \* Tokenizer._current_scene: a node id, 0 is None
    heap,           \* the Node objects, by id (the order of construction)
    nodes,          \* the nodes yielded to Tokenizer.parse: StageScript.nodes
    last,           \* the last top-level match and the state it was applied in
    earlier,        \* the StageScripts that earlier calls of Tokenizer.parse returned
    flow,           \* StagescriptParser.flow of the legacy line parser
    compact_flow    \* the list that StagescriptParser.postprocess returned last

vars == <<dry_run, files, closed, frames, status, error, play_name, metadata,
          characters, violations, include_stack, current_act, current_scene,
          heap, nodes, last, earlier, flow, compact_flow>>

(***************************************************************************)
(* Bounds of the model                                                     *)
(***************************************************************************)
\* the physical lines of all files together
MaxLines == 4

(***************************************************************************)
(* Texts                                                                   *)
(***************************************************************************)
None == <<"None">>

NL == "\n"

\* the characters of the model that the class [a-zA-Z0-9] holds
Alnum ==
    {"a", "b", "c", "d", "e", "f", "g", "h", "i", "j", "k", "l", "m",
     "n", "o", "p", "q", "r", "s", "t", "u", "v", "w", "x", "y", "z",
     "A", "B", "C", "D", "E", "F", "G", "H", "I", "J", "K", "L", "M",
     "N", "O", "P", "Q", "R", "S", "T", "U", "V", "W", "X", "Y", "Z",
     "0", "1", "2", "3", "4", "5", "6", "7", "8", "9"}

\* str.strip() strips whitespace
Whitespace == {" ", NL}

Truthy(text) == text # None /\ text # <<>>

RECURSIVE LStripSet(_, _)
LStripSet(s, cs) ==
    IF s # <<>> /\ Head(s) \in cs THEN LStripSet(Tail(s), cs) ELSE s

RECURSIVE RStripSet(_, _)
RStripSet(s, cs) ==
    IF s # <<>> /\ s[Len(s)] \in cs
    THEN RStripSet(SubSeq(s, 1, Len(s) - 1), cs)
    ELSE s

Strip(s) == RStripSet(LStripSet(s, Whitespace), Whitespace)

\* the index of the first c in s at or after i, Len(s) + 1 if there is none
RECURSIVE Find(_, _, _)
Find(s, c, i) ==
    IF i > Len(s) THEN Len(s) + 1
    ELSE IF s[i] = c THEN i ELSE Find(s, c, i + 1)

\* str.split(sep): always at least one part
RECURSIVE Split(_, _)
Split(s, sep) ==
    LET j == Find(s, sep, 1)
    IN  IF j > Len(s) THEN <<s>>
        ELSE <<SubSeq(s, 1, j - 1)>> \o Split(SubSeq(s, j + 1, Len(s)), sep)

RECURSIVE MapStrip(_)
MapStrip(parts) ==
    IF parts = <<>> THEN <<>>
    ELSE <<Strip(Head(parts))>> \o MapStrip(Tail(parts))

\* the end of the longest run of [a-zA-Z0-9] that starts at i (i - 1: no run)
RECURSIVE AlnumRunEnd(_, _)
AlnumRunEnd(s, i) ==
    IF i <= Len(s) /\ s[i] \in Alnum THEN AlnumRunEnd(s, i + 1) ELSE i - 1

\* the end of the longest run of characters outside cs that starts at i
RECURSIVE RunEndOutside(_, _, _)
RunEndOutside(s, cs, i) ==
    IF i <= Len(s) /\ s[i] \notin cs THEN RunEndOutside(s, cs, i + 1) ELSE i - 1

(***************************************************************************)
(* Sub-patterns                                                            *)
(***************************************************************************)
\* \((?P<declension>[^\)]+)\)(?P<character>[a-zA-Z0-9]+) tried at s[i]:
\* the index of the last character matched, 0 if there is no match
DeclensionEnd(s, i) ==
    IF i <= Len(s) /\ s[i] = "("
    THEN LET j == Find(s, ")", i + 1)
             e == AlnumRunEnd(s, j + 1)
         IN  IF j <= Len(s) /\ j > i + 1 /\ e >= j + 1 THEN e ELSE 0
    ELSE 0

\* stage_direction_sub_patterns.finditer(s), from position i on
RECURSIVE StageDirectionMatches(_, _)
StageDirectionMatches(s, i) ==
    IF i > Len(s) THEN <<>>
    ELSE IF s[i] = "@"
    THEN LET d == DeclensionEnd(s, i + 1)
             e == AlnumRunEnd(s, i + 1)
         IN  IF d > 0
             THEN <<[group |-> "mention", value |-> SubSeq(s, i + 1, d)]>>
                  \o StageDirectionMatches(s, d + 1)
             ELSE IF e >= i + 1
             THEN <<[group |-> "mention", value |-> SubSeq(s, i + 1, e)]>>
                  \o StageDirectionMatches(s, e + 1)
             ELSE StageDirectionMatches(s, i + 1)
    ELSE IF i > 1 /\ s[i - 1] = "@"
    THEN StageDirectionMatches(s, i + 1)
    ELSE LET e == RunEndOutside(s, {"@"}, i)
         IN  <<[group |-> "stage_direction", value |-> SubSeq(s, i, e)]>>
             \o StageDirectionMatches(s, e + 1)

\* dialogue_sub_patterns.finditer(s), from position i on
RECURSIVE DialogueMatches(_, _)
DialogueMatches(s, i) ==
    IF i > Len(s) THEN <<>>
    ELSE IF s[i] = "{"
    THEN LET j == Find(s, "}", i + 1)
         IN  IF j <= Len(s) /\ j > i + 1
             THEN <<[group |-> "inline_stage_direction",
                     value |-> SubSeq(s, i + 1, j - 1)]>>
                  \o DialogueMatches(s, j + 1)
             ELSE DialogueMatches(s, i + 1)
    ELSE IF s[i] = "}"
    THEN DialogueMatches(s, i + 1)
    ELSE LET e == RunEndOutside(s, {"{", "}"}, i)
         IN  <<[group |-> "dialogue", value |-> SubSeq(s, i, e)]>>
             \o DialogueMatches(s, e + 1)

(***************************************************************************)
(* Physical lines and the top-level pattern                                *)
(***************************************************************************)
\* k names the alternative of toplevel_patterns that matches at the start of
\* the line ("comment", "plain", "blank": none does); a and b are the texts
\* of its groups; bare: the line ends right after the function name
FunctionLine(name, arguments) ==
    [k |-> "function", a |-> <<name>>, b |-> arguments, bare |-> FALSE]
BareFunctionLine(name) ==
    [k |-> "function", a |-> <<name>>, b |-> <<>>, bare |-> TRUE]
PlayNameLine(text) == [k |-> "play_name", a |-> <<>>, b |-> text, bare |-> FALSE]
ActNameLine(text) == [k |-> "act_name", a |-> <<>>, b |-> text, bare |-> FALSE]
SceneNameLine(text) == [k |-> "scene_name", a |-> <<>>, b |-> text, bare |-> FALSE]
MetadataLine(key, value) == [k |-> "metadata", a |-> key, b |-> value, bare |-> FALSE]
StageDirectionLine(text) ==
    [k |-> "stage_direction", a |-> <<>>, b |-> text, bare |-> FALSE]
\* the line ">": the \s of the pattern is the end of the line
BareStageDirectionLine ==
    [k |-> "stage_direction", a |-> <<>>, b |-> <<>>, bare |-> TRUE]
DialogueLine(speaker, text) ==
    [k |-> "dialogue", a |-> speaker, b |-> text, bare |-> FALSE]
CommentLine(text) == [k |-> "comment", a |-> <<>>, b |-> text, bare |-> FALSE]
PlainLine(text) == [k |-> "plain", a |-> <<>>, b |-> text, bare |-> FALSE]
BlankLine == [k |-> "blank", a |-> <<>>, b |-> <<>>, bare |-> FALSE]

\* the characters of a physical line, without its newline
Raw(l) ==
    CASE l.k = "function" ->
            <<"/">> \o l.a \o (IF l.bare THEN <<>> ELSE <<" ">> \o l.b)
      [] l.k = "play_name" -> <<"#", " ">> \o l.b
      [] l.k = "act_name" -> <<"#", "#", " ">> \o l.b
      [] l.k = "scene_name" -> <<"#", "#", "#", " ">> \o l.b
      [] l.k = "metadata" -> l.a \o <<":", " ">> \o l.b
      [] l.k = "stage_direction" ->
            <<">">> \o (IF l.bare THEN <<>> ELSE <<" ">> \o l.b)
      [] l.k = "dialogue" -> l.a \o <<":", " ">> \o l.b
      [] l.k = "comment" -> <<"%">> \o l.b
      [] OTHER -> l.b

\* no alternative of toplevel_patterns matches at the start of the line
Unmatched(l) == l.k \in {"comment", "plain", "blank"}

\* stop_pattern matches at the start of the line
StopLine(l) ==
    l.k \in {"dialogue", "play_name", "act_name", "scene_name", "function",
             "comment", "stage_direction"}

\* the first stop line after pos, Len(lines) + 1 (\Z) if there is none
RECURSIVE DialogueEnd(_, _)
DialogueEnd(lines, pos) ==
    IF pos + 1 > Len(lines) THEN Len(lines) + 1
    ELSE IF StopLine(lines[pos + 1]) THEN pos + 1
    ELSE DialogueEnd(lines, pos + 1)

\* the line at which the scan goes on after the match that starts at line pos.
\* The \s after a bare function name matches the newline and .* the next line;
\* the body of a dialogue runs up to stop_pattern.
MatchEnd(lines, pos) ==
    LET l == lines[pos]
    IN  IF l.bare
        THEN (IF pos < Len(lines) THEN pos + 2 ELSE pos + 1)
        ELSE IF l.k = "dialogue" THEN DialogueEnd(lines, pos)
        ELSE pos + 1

\* group function_arguments of the match at line pos
FunctionArguments(lines, pos) ==
    LET l == lines[pos]
    IN  IF ~l.bare THEN l.b
        ELSE IF pos < Len(lines) THEN Raw(lines[pos + 1]) ELSE <<>>

\* group stage_direction of the match at line pos
StageDirectionText(lines, pos) ==
    LET l == lines[pos]
    IN  IF ~l.bare THEN l.b
        ELSE IF pos < Len(lines) THEN Raw(lines[pos + 1]) ELSE <<>>

RECURSIVE RawLines(_, _, _)
RawLines(lines, from, to) ==
    IF from > to THEN <<>>
    ELSE Raw(lines[from]) \o <<NL>> \o RawLines(lines, from + 1, to)

\* group dialogue of the match at line pos
DialogueBody(lines, pos) ==
    lines[pos].b \o <<NL>> \o RawLines(lines, pos + 1, DialogueEnd(lines, pos) - 1)

(***************************************************************************)
(* Document model                                                          *)
(***************************************************************************)
Context(path, lineno) == [path |-> path, lineno |-> lineno]

NoContext == [path |-> <<>>, lineno |-> 0]

\* Node.__post_init__ raises ValueError
Malformed(children, text) == children # <<>> /\ Truthy(text)

NodeInit(context, kind, children, text) ==
    [context |-> context, kind |-> kind, children |-> children, text |-> text]

Character(handle, name, context, introduce) ==
    [handle |-> handle, name |-> name, context |-> context, introduce |-> introduce]

Metadata(key, value, context) ==
    [key |-> key, value |-> value, context |-> context]

\* a description is the message's kind, the text it quotes and the context it
\* links to
LintingViolation(what, arg, ref, context, severity) ==
    [description |-> [what |-> what, arg |-> arg, ref |-> ref],
     context |-> context, severity |-> severity]

\* track_violation that records every violation as a Warning
track_violation_warning(vs, what, arg, ref, context, severity) ==
    Append(vs, LintingViolation(what, arg, ref, context, "WARNING"))

\* track_violation that records nothing in lint mode
track_violation_strict(vs, what, arg, ref, context, severity) ==
    IF dry_run THEN vs
    ELSE Append(vs, LintingViolation(what, arg, ref, context, severity))

\* track_violation that puts the violation before the ones recorded so far
track_violation_front(vs, what, arg, ref, context, severity) ==
    <<LintingViolation(what, arg, ref, context, severity)>> \o vs

track_violation(vs, what, arg, ref, context, severity) ==
    Append(vs, LintingViolation(what, arg, ref, context, severity))

valid == \A i \in 1..Len(violations) : violations[i].severity # "ERROR"

NoError == [type |-> "", what |-> "", arg |-> <<>>, context |-> NoContext]

\* Raise whose message leaves out the path
RaiseBare(type, what, arg, context) ==
    [type |-> type, what |-> what, arg |-> <<>>, context |-> context]

\* raise type(f"{context.link} - ..."): what the message is about, the path
\* or name it holds, and the file and line of context.link
Raise(type, what, arg, context) ==
    [type |-> type, what |-> what, arg |-> arg, context |-> context]

\* dict[key] = value
Put(dict, key, value) ==
    [x \in DOMAIN dict \cup {key} |-> IF x = key THEN value ELSE dict[x]]

EmptyDict == [x \in {} |-> NoContext]

(***************************************************************************)
(* The file system                                                         *)
(***************************************************************************)
\* a path is the sequence of its components, each a text
RootPath == << <<"a">> >>

Parent(path) == SubSeq(path, 1, Len(path) - 1)

RECURSIVE Normalize(_, _)
Normalize(done, parts) ==
    IF parts = <<>> THEN done
    ELSE IF Head(parts) \in {<<>>, <<".">>} THEN Normalize(done, Tail(parts))
    ELSE IF Head(parts) = <<".", ".">>
    THEN Normalize(IF done = <<>> THEN done ELSE Parent(done), Tail(parts))
    ELSE Normalize(Append(done, Head(parts)), Tail(parts))

\* ResolvePath that resolves against the directory of the root file
ResolveFromRoot(context_path, include_path) ==
    Normalize(Parent(RootPath), Split(include_path, "/"))

\* (context.path.parent / include_path).resolve()
ResolvePath(context_path, include_path) ==
    Normalize(Parent(context_path), Split(include_path, "/"))

\* path.as_posix()
RECURSIVE as_posix(_)
as_posix(path) ==
    IF path = <<>> THEN <<>> ELSE <<"/">> \o Head(path) \o as_posix(Tail(path))

\* path.exists() and path.is_file()
IsFile(path) == path \in DOMAIN files

(***************************************************************************)
(* Sub-parsers.  An accumulator acc holds the heap, the violations and the *)
(* ids of the nodes yielded so far.                                        *)
(***************************************************************************)
Acc(h, vs) == [heap |-> h, violations |-> vs, ids |-> <<>>]

Yield(acc, node) ==
    [acc EXCEPT !.heap = Append(@, node), !.ids = Append(@, Len(acc.heap) + 1)]

\* MentionParts that takes the whole of the mention for the character
MentionPartsWhole(value) == <<value, None>>

\* the character a mention names and, in the second place, its declension
MentionParts(value) ==
    LET j == Find(value, ")", 2)
    IN  IF DeclensionEnd(value, 1) > 0
        THEN <<SubSeq(value, j + 1, Len(value)), SubSeq(value, 2, j - 1)>>
        ELSE <<value, None>>

\* ProcessMention that flags every mention
ProcessMentionFlagged(acc, value, context) ==
    [Yield(acc, NodeInit(context, "mention", <<>>, MentionParts(value)[1]))
        EXCEPT !.violations =
            track_violation(@, "mentioned", MentionParts(value)[1], NoContext,
                            context, "WARNING")]

\* one match of _process_stage_direction
ProcessMention(acc, value, context) ==
    LET declined == DeclensionEnd(value, 1) > 0
        character == MentionParts(value)[1]
        declension == MentionParts(value)[2]
        n == Len(acc.heap)
        yielded ==
            IF declined
            THEN [acc EXCEPT
                    !.heap = @ \o
                        <<NodeInit(context, "mention", <<>>, character),
                          NodeInit(context, "declension", <<>>, declension),
                          NodeInit(context, "mention_with_declension",
                                   <<n + 1, n + 2>>, None)>>,
                    !.ids = Append(@, n + 3)]
            ELSE Yield(acc, NodeInit(context, "mention", <<>>, character))
    IN  IF character \notin DOMAIN characters
        THEN [yielded EXCEPT !.violations =
                track_violation(@, "mentioned", character, NoContext, context,
                                "WARNING")]
        ELSE yielded

RECURSIVE ProcessStageDirectionMatches(_, _, _)
ProcessStageDirectionMatches(acc, ms, context) ==
    IF ms = <<>> THEN acc
    ELSE LET m == Head(ms)
             next == IF m.group = "stage_direction"
                     THEN Yield(acc, NodeInit(context, "text", <<>>, m.value))
                     ELSE ProcessMention(acc, m.value, context)
         IN  ProcessStageDirectionMatches(next, Tail(ms), context)

\* list(self._process_stage_direction(string, kind, context))
_process_stage_direction(acc, string, context) ==
    ProcessStageDirectionMatches(
        [acc EXCEPT !.ids = <<>>], StageDirectionMatches(string, 1), context)

RECURSIVE ProcessDialogueMatches(_, _, _)
ProcessDialogueMatches(acc, ms, context) ==
    IF ms = <<>> THEN acc
    ELSE LET m == Head(ms)
             sub == _process_stage_direction(acc, m.value, context)
             next ==
                IF m.group = "inline_stage_direction"
                THEN Yield([sub EXCEPT !.ids = acc.ids],
                           NodeInit(context, "inline_stage_direction", sub.ids, None))
                ELSE Yield(acc, NodeInit(context, "dialogue", <<>>, m.value))
         IN  ProcessDialogueMatches(next, Tail(ms), context)

\* _process_dialogue that takes the whole body for one run of text
_process_dialogue_flat(acc, dialogue, context) ==
    Yield([acc EXCEPT !.ids = <<>>], NodeInit(context, "dialogue", <<>>, dialogue))

\* list(self._process_dialogue(dialogue, context))
_process_dialogue(acc, dialogue, context) ==
    ProcessDialogueMatches(
        [acc EXCEPT !.ids = <<>>], DialogueMatches(dialogue, 1), context)

\* ProcessSpeakerParts that yields no node for a speaker it flags
RECURSIVE ProcessSpeakerPartsKnown(_, _, _)
ProcessSpeakerPartsKnown(acc, parts, context) ==
    IF parts = <<>> THEN acc
    ELSE LET speaker_handle == LStripSet(Strip(Head(parts)), {"@"})
         IN  ProcessSpeakerPartsKnown(
                IF speaker_handle \notin DOMAIN characters
                THEN [acc EXCEPT !.violations =
                        track_violation(@, "speaks", speaker_handle, NoContext,
                                        context, "WARNING")]
                ELSE Yield(acc, NodeInit(context, "speaker", <<>>, speaker_handle)),
                Tail(parts), context)

RECURSIVE ProcessSpeakerParts(_, _, _)
ProcessSpeakerParts(acc, parts, context) ==
    IF parts = <<>> THEN acc
    ELSE LET speaker_handle == LStripSet(Strip(Head(parts)), {"@"})
             flagged ==
                IF speaker_handle \notin DOMAIN characters
                THEN [acc EXCEPT !.violations =
                        track_violation(@, "speaks", speaker_handle, NoContext,
                                        context, "WARNING")]
                ELSE acc
         IN  ProcessSpeakerParts(
                Yield(flagged, NodeInit(context, "speaker", <<>>, speaker_handle)),
                Tail(parts), context)

\* _process_speakers that reads the first speaker only
_process_speakers_first(acc, speakers, context) ==
    ProcessSpeakerParts([acc EXCEPT !.ids = <<>>], <<Head(Split(speakers, ","))>>,
                        context)

\* list(self._process_speakers(speakers, context))
_process_speakers(acc, speakers, context) ==
    ProcessSpeakerParts([acc EXCEPT !.ids = <<>>], Split(speakers, ","), context)

\* _process_node, case "stage_direction": the node is the last of the heap
StageDirectionNode(acc, value, context) ==
    LET sub == _process_stage_direction(acc, value, context)
    IN  Yield([sub EXCEPT !.ids = <<>>],
              NodeInit(context, "stage_direction", sub.ids, None))

\* _process_node, case "speaker"
SpeakerNode(acc, value, context) ==
    LET sub == _process_speakers(acc, Strip(value), context)
    IN  Yield([sub EXCEPT !.ids = <<>>], NodeInit(context, "speaker", sub.ids, None))

\* _process_node, case "dialogue"
DialogueNode(acc, value, context) ==
    LET sub == _process_dialogue(acc, value, context)
    IN  Yield([sub EXCEPT !.ids = <<>>], NodeInit(context, "dialogue", sub.ids, None))

\* ActNode with the title as the text of the act itself
ActNodeTitled(acc, value, context) ==
    Yield([acc EXCEPT !.ids = <<>>], NodeInit(context, "act", <<>>, value))

\* _process_node, case "act_name"
ActNode(acc, value, context) ==
    LET n == Len(acc.heap)
    IN  [acc EXCEPT
            !.heap = @ \o <<NodeInit(context, "text", <<>>, value),
                            NodeInit(context, "act", <<n + 1>>, None)>>,
            !.ids = <<n + 2>>]

\* _process_node, case "scene_name"
SceneNode(acc, value, context) ==
    LET n == Len(acc.heap)
    IN  [acc EXCEPT
            !.heap = @ \o <<NodeInit(context, "text", <<>>, value),
                            NodeInit(context, "scene", <<n + 1>>, None)>>,
            !.ids = <<n + 2>>]

\* a Node constructed between heap h0 and heap h1 raised ValueError
ConstructionFails(h0, h1) ==
    \E i \in (Len(h0) + 1)..Len(h1) : Malformed(h1[i].children, h1[i].text)

(***************************************************************************)
(* Placement                                                               *)
(***************************************************************************)
\* Extend that puts the nodes before the children that are there
ExtendFront(h, parent, ids) == [h EXCEPT ![parent].children = ids \o @]

\* children.extend(processed_nodes), children.append(node)
Extend(h, parent, ids) == [h EXCEPT ![parent].children = @ \o ids]

\* Place with the act tried before the scene
PlaceActFirst(h, yielded, ids, scene, act) ==
    IF act # 0 THEN [heap |-> Extend(h, act, ids), nodes |-> yielded]
    ELSE IF scene # 0 THEN [heap |-> Extend(h, scene, ids), nodes |-> yielded]
    ELSE [heap |-> h, nodes |-> yielded \o ids]

\* tokenize: where processed_nodes that are neither an act nor a scene go.
\* The result is the heap and the nodes yielded.
Place(h, yielded, ids, scene, act) ==
    IF scene # 0 THEN [heap |-> Extend(h, scene, ids), nodes |-> yielded]
    ELSE IF act # 0 THEN [heap |-> Extend(h, act, ids), nodes |-> yielded]
    ELSE [heap |-> h, nodes |-> yielded \o ids]

\* PlaceScene with a scene nested in the scene that is open
PlaceSceneNested(h, yielded, id, act) ==
    IF current_scene # 0
    THEN [heap |-> Extend(h, current_scene, <<id>>), nodes |-> yielded]
    ELSE IF act # 0 THEN [heap |-> Extend(h, act, <<id>>), nodes |-> yielded]
    ELSE [heap |-> h, nodes |-> Append(yielded, id)]

\* tokenize: where a scene goes
PlaceScene(h, yielded, id, act) ==
    IF act # 0 THEN [heap |-> Extend(h, act, <<id>>), nodes |-> yielded]
    ELSE [heap |-> h, nodes |-> Append(yielded, id)]

\* PlaceAct with an act nested in the act that is open
PlaceActNested(h, yielded, id) ==
    IF current_act # 0
    THEN [heap |-> Extend(h, current_act, <<id>>), nodes |-> yielded]
    ELSE [heap |-> h, nodes |-> Append(yielded, id)]

\* tokenize: where an act goes
PlaceAct(h, yielded, id) == [heap |-> h, nodes |-> Append(yielded, id)]

\* tokenize: self._current_scene after an act title
SceneAfterAct(scene) == scene

\* PlayNameAfter with a name that is set once
PlayNameKept(old, value) == IF old = None THEN value ELSE old

\* _process_node, case "play_name": self.play_name after a play title
PlayNameAfter(old, value) == value

(***************************************************************************)
(* Handlers                                                                *)
(***************************************************************************)
\* _update_metadata that keeps the first value of a key
_update_metadata_first(md, vs, key, value, context) ==
    [metadata |-> IF key \in DOMAIN md THEN md
                  ELSE Put(md, key, Metadata(key, value, context)),
     violations |->
        IF key \in DOMAIN md
        THEN track_violation(vs, "metadata_key", key, md[key].context, context,
                             "WARNING")
        ELSE vs]

\* the result is the metadata and the violations
_update_metadata(md, vs, key, value, context) ==
    [metadata |-> Put(md, key, Metadata(key, value, context)),
     violations |->
        IF key \in DOMAIN md
        THEN track_violation(vs, "metadata_key", key, md[key].context, context,
                             "WARNING")
        ELSE vs]

\* _handle_introduce that keeps the first definition of a handle
_handle_introduce_first(cs, vs, handle, name, introduce, context) ==
    [characters |-> IF handle \in DOMAIN cs THEN cs
                    ELSE Put(cs, handle, Character(handle, name, context, introduce)),
     violations |->
        IF handle \in DOMAIN cs
        THEN track_violation(vs, "handle", handle, cs[handle].context, context,
                             "WARNING")
        ELSE vs]

\* _handle_introduce that keys the registry by the name
_handle_introduce_by_name(cs, vs, handle, name, introduce, context) ==
    [characters |-> Put(cs, name, Character(handle, name, context, introduce)),
     violations |->
        IF handle \in DOMAIN cs
        THEN track_violation(vs, "handle", handle, cs[handle].context, context,
                             "WARNING")
        ELSE vs]

\* the result is the characters and the violations
_handle_introduce(cs, vs, handle, name, introduce, context) ==
    [characters |-> Put(cs, handle, Character(handle, name, context, introduce)),
     violations |->
        IF handle \in DOMAIN cs
        THEN track_violation(vs, "handle", handle, cs[handle].context, context,
                             "WARNING")
        ELSE vs]

\* Tokenizer._functions
Functions == {"introduce", "include"}

(***************************************************************************)
(* The scan                                                                *)
(***************************************************************************)
Paths == {RootPath, << <<"b">> >>}

\* the root file, a file next to it, and two files in a directory d next to
\* it, one of them with the name of the file next to the root file
DirPaths == {RootPath, << <<"c">> >>, << <<"d">>, <<"b">> >>, << <<"d">>, <<"c">> >>}

Top == frames[Len(frames)]

Lines == files[Top.path]

Running == status = "running" /\ frames # <<>>

\* the text that decides where the match at line pos ends is determined
LookaheadKnown(path, pos) ==
    LET lines == files[path]
        l == lines[pos]
    IN  IF closed[path] THEN TRUE
        ELSE IF l.bare THEN pos < Len(lines)
        ELSE IF l.k = "dialogue" THEN DialogueEnd(lines, pos) <= Len(lines)
        ELSE TRUE

\* finditer's next match starts at the current line and is of alternative k
AtMatch(k) ==
    /\ Running
    /\ Top.pos <= Len(Lines)
    /\ Lines[Top.pos].k = k
    /\ LookaheadKnown(Top.path, Top.pos)

AtEnd == Running /\ Top.pos > Len(Lines) /\ closed[Top.path]

\* MatchContext with the path of the root file
MatchContextRoot == Context(RootPath, Top.pos)

\* match_context
MatchContext == Context(Top.path, Top.pos)

Advance == [frames EXCEPT ![Len(frames)].pos = MatchEnd(Lines, Top.pos)]

Observe(op, new, arg, had) ==
    [op |-> op, context |-> MatchContext, new |-> new, arg |-> arg, had |-> had,
     scene |-> current_scene, act |-> current_act, name |-> play_name,
     nviol |-> Len(violations), nheap |-> Len(heap), nnodes |-> Len(nodes),
     depth |-> Len(frames), stack |-> include_stack]

NoMatch ==
    [op |-> "", context |-> NoContext, new |-> <<>>, arg |-> <<>>, had |-> FALSE,
     scene |-> 0, act |-> 0, name |-> None, nviol |-> 0, nheap |-> 0, nnodes |-> 0,
     depth |-> 0, stack |-> <<>>]

RECURSIVE SumLen(_)
SumLen(ps) ==
    IF ps = {} THEN 0
    ELSE LET p == CHOOSE q \in ps : TRUE IN Len(files[p]) + SumLen(ps \ {p})

TotalLines == SumLen(DOMAIN files)

\* the scan has reached text that is not determined yet
NeedsText ==
    /\ Running
    /\ ~closed[Top.path]
    /\ IF Top.pos > Len(Lines) THEN TRUE ELSE ~LookaheadKnown(Top.path, Top.pos)

engine == <<dry_run, frames, status, error, play_name, metadata, characters,
            violations, include_stack, current_act, current_scene, heap, nodes,
            last, earlier>>

\* the next physical line of the file being read is l
WriteLine(l) ==
    /\ NeedsText
    /\ TotalLines < MaxLines
    /\ files' = [files EXCEPT ![Top.path] = Append(@, l)]
    /\ UNCHANGED <<flow, compact_flow, closed, engine>>

\* the file being read ends here
CloseFile ==
    /\ NeedsText
    /\ closed' = [closed EXCEPT ![Top.path] = TRUE]
    /\ UNCHANGED <<flow, compact_flow, files, engine>>

\* an exception leaves Tokenizer.parse: no generator runs on
Raises(type, what, arg, context) ==
    /\ status' = "raised"
    /\ error' = Raise(type, what, arg, context)
    /\ frames' = <<>>

Continues ==
    /\ frames' = Advance
    /\ UNCHANGED <<flow, compact_flow, status, error>>

\* an Error that every mode records and goes on from
FailsQuietly(type, what, arg, context) == Continues

\* after an Error violation: "if self.dry_run: return" and "raise ParsingError"
Fails(type, what, arg, context) ==
    IF dry_run THEN Continues ELSE Raises(type, what, arg, context)

\* finditer passes a line at which no alternative matches
ScanUnmatched ==
    /\ Running
    /\ Top.pos <= Len(Lines)
    /\ Unmatched(Lines[Top.pos])
    /\ frames' = [frames EXCEPT ![Len(frames)].pos = @ + 1]
    /\ last' = Observe("unmatched", <<>>, <<>>, FALSE)
    /\ UNCHANGED <<flow, compact_flow, earlier, dry_run, files, closed, status, error, play_name, metadata,
                   characters, violations, include_stack, current_act,
                   current_scene, heap, nodes>>

MatchMetadata ==
    /\ AtMatch("metadata")
    /\ LET key == Lines[Top.pos].a
           value == Lines[Top.pos].b
           r == _update_metadata(metadata, violations, key, value, MatchContext)
       IN  /\ metadata' = r.metadata
           /\ violations' = r.violations
           /\ last' = Observe("metadata", <<>>, key, key \in DOMAIN metadata)
    /\ Continues
    /\ UNCHANGED <<flow, compact_flow, earlier, dry_run, files, closed, play_name, characters, include_stack,
                   current_act, current_scene, heap, nodes>>

\* _call_function with a name that is not registered
CallUndefined ==
    /\ AtMatch("function")
    /\ LET function_name == Lines[Top.pos].a[1]
       IN  /\ function_name \notin Functions
           /\ violations' = track_violation(violations, "undefined_function",
                                <<function_name>>, NoContext, MatchContext, "ERROR")
           /\ last' = Observe("undefined", <<>>, <<function_name>>, FALSE)
           /\ Fails("ParsingError", "undefined_function", <<function_name>>,
                    MatchContext)
    /\ UNCHANGED <<flow, compact_flow, earlier, dry_run, files, closed, play_name, metadata, characters,
                   include_stack, current_act, current_scene, heap, nodes>>

\* _call_function with "introduce"
CallIntroduce ==
    /\ AtMatch("function")
    /\ Lines[Top.pos].a[1] = "introduce"
    /\ LET arguments == MapStrip(Split(FunctionArguments(Lines, Top.pos), ";"))
           introduce == IF Len(arguments) = 3 THEN arguments[3] ELSE None
           r == _handle_introduce(characters, violations, arguments[1],
                                  arguments[2], introduce, MatchContext)
       IN  IF Len(arguments) \in {2, 3}
           THEN /\ characters' = r.characters
                /\ violations' = r.violations
                /\ last' = Observe("introduce", <<>>, arguments[1],
                                   arguments[1] \in DOMAIN characters)
                /\ Continues
           ELSE /\ Raises("TypeError", "introduce", <<>>, MatchContext)
                /\ last' = Observe("bad_call", <<>>, <<>>, FALSE)
                /\ UNCHANGED <<flow, compact_flow, characters, violations>>
    /\ UNCHANGED <<flow, compact_flow, earlier, dry_run, files, closed, play_name, metadata, include_stack,
                   current_act, current_scene, heap, nodes>>

\* InStack that looks at the path pushed last only
InStackTop(path) ==
    include_stack # <<>> /\ include_stack[Len(include_stack)] = as_posix(path)

\* InStack that finds no path
InStackNever(path) == FALSE

\* InStack that also finds a path whose file left a node earlier in the parse
InStackOrSeen(path) ==
    \/ \E i \in 1..Len(include_stack) : include_stack[i] = as_posix(path)
    \/ \E i \in 1..Len(heap) : heap[i].context.path = path

\* path.as_posix() in self._include_stack
InStack(path) ==
    \E i \in 1..Len(include_stack) : include_stack[i] = as_posix(path)

\* _call_function with "include", and the start of _handle_include's generator;
\* arguments and path are computed once, as the locals of the code are
CallInclude ==
    /\ AtMatch("function")
    /\ Lines[Top.pos].a[1] = "include"
    /\ \E arguments \in {MapStrip(Split(FunctionArguments(Lines, Top.pos), ";"))} :
       \E path \in {ResolvePath(Top.path, arguments[1])} :
       LET include_path == arguments[1]
       IN  IF Len(arguments) # 1
           THEN /\ Raises("TypeError", "include", <<>>, MatchContext)
                /\ last' = Observe("bad_call", <<>>, <<>>, FALSE)
                /\ UNCHANGED <<flow, compact_flow, violations, include_stack>>
           ELSE IF ~IsFile(path)
           THEN /\ violations' = track_violation(violations, "missing_include",
                                    include_path, NoContext, MatchContext, "ERROR")
                /\ last' = Observe("include_missing", <<>>, include_path, FALSE)
                /\ Fails("ParsingError", "missing_include", include_path,
                         MatchContext)
                /\ UNCHANGED include_stack
           ELSE IF InStack(path)
           THEN /\ violations' = track_violation(violations, "circular_include",
                                    as_posix(path), NoContext, MatchContext, "ERROR")
                /\ last' = Observe("include_circular", <<>>, include_path, TRUE)
                /\ Fails("ParsingError", "circular_include", as_posix(path),
                         MatchContext)
                /\ UNCHANGED include_stack
           ELSE /\ include_stack' = Append(include_stack, as_posix(path))
                /\ frames' = Append(Advance, [path |-> path, pos |-> 1])
                /\ last' = Observe("include", <<>>, include_path, FALSE)
                /\ UNCHANGED <<flow, compact_flow, violations, status, error>>
    /\ UNCHANGED <<flow, compact_flow, earlier, dry_run, files, closed, play_name, metadata, characters,
                   current_act, current_scene, heap, nodes>>

\* IncludeDone that leaves the path on the include stack
IncludeDoneKeeps ==
    /\ AtEnd
    /\ Len(frames) > 1
    /\ frames' = SubSeq(frames, 1, Len(frames) - 1)
    /\ last' = Observe("include_done", <<>>, <<>>, FALSE)
    /\ UNCHANGED <<flow, compact_flow, earlier, dry_run, files, closed, status, error, play_name,
                   metadata, characters, violations, include_stack, current_act,
                   current_scene, heap, nodes>>

\* IncludeDone that closes the act and the scene that the included file opened
IncludeDoneCloses ==
    /\ AtEnd
    /\ Len(frames) > 1
    /\ frames' = SubSeq(frames, 1, Len(frames) - 1)
    /\ include_stack' = SubSeq(include_stack, 1, Len(include_stack) - 1)
    /\ current_act' = 0
    /\ current_scene' = 0
    /\ last' = Observe("include_done", <<>>, <<>>, FALSE)
    /\ UNCHANGED <<flow, compact_flow, earlier, dry_run, files, closed, status, error, play_name,
                   metadata, characters, violations, heap, nodes>>

\* the generator of an included file is exhausted: _check_include_stack pops
IncludeDone ==
    /\ AtEnd
    /\ Len(frames) > 1
    /\ frames' = SubSeq(frames, 1, Len(frames) - 1)
    /\ include_stack' = SubSeq(include_stack, 1, Len(include_stack) - 1)
    /\ last' = Observe("include_done", <<>>, <<>>, FALSE)
    /\ UNCHANGED <<flow, compact_flow, earlier, dry_run, files, closed, status, error, play_name, metadata,
                   characters, violations, current_act, current_scene, heap, nodes>>

\* the root generator is exhausted: Tokenizer.parse returns the StageScript
ParseReturn ==
    /\ AtEnd
    /\ Len(frames) = 1
    /\ frames' = <<>>
    /\ status' = "returned"
    /\ last' = Observe("return", <<>>, <<>>, FALSE)
    /\ UNCHANGED <<flow, compact_flow, earlier, dry_run, files, closed, error, play_name, metadata, characters,
                   violations, include_stack, current_act, current_scene, heap,
                   nodes>>

\* the StageScript that Tokenizer.parse builds from the tokenizer; its nodes
\* are ids of the heap
StageScript ==
    [name |-> play_name, metadata |-> metadata, characters |-> characters,
     nodes |-> nodes, heap |-> heap, violations |-> violations]

\* RestartAt with a registry of characters and a metadata map that all
\* Tokenizers share
RestartShared(path, mode) ==
    /\ status = "returned"
    /\ earlier' = Append(earlier, StageScript)
    /\ dry_run' = mode
    /\ frames' = <<[path |-> path, pos |-> 1]>>
    /\ status' = "running"
    /\ error' = NoError
    /\ play_name' = None
    /\ violations' = <<>>
    /\ include_stack' = <<>>
    /\ current_act' = 0
    /\ current_scene' = 0
    /\ heap' = <<>>
    /\ nodes' = <<>>
    /\ last' = NoMatch
    /\ UNCHANGED <<metadata, characters>>

\* Tokenizer.parse(path, dry_run=mode) after a parse that returned: a new
\* Tokenizer reads the file from its start
RestartAt(path, mode) ==
    /\ status = "returned"
    /\ earlier' = Append(earlier, StageScript)
    /\ dry_run' = mode
    /\ frames' = <<[path |-> path, pos |-> 1]>>
    /\ status' = "running"
    /\ error' = NoError
    /\ play_name' = None
    /\ metadata' = EmptyDict
    /\ characters' = EmptyDict
    /\ violations' = <<>>
    /\ include_stack' = <<>>
    /\ current_act' = 0
    /\ current_scene' = 0
    /\ heap' = <<>>
    /\ nodes' = <<>>
    /\ last' = NoMatch

\* Tokenizer.parse of the root file after a parse that returned
Restart(mode) == RestartAt(RootPath, mode)

\* a further parse of the files as they are
ParseAgain(mode) == Restart(mode) /\ UNCHANGED <<flow, compact_flow, files, closed>>

\* MatchPlayName in which the play title closes the act and the scene
MatchPlayNameCloses ==
    /\ AtMatch("play_name")
    /\ LET value == Lines[Top.pos].b
       IN  /\ violations' =
                IF play_name # None
                THEN track_violation(violations, "play_name", play_name, NoContext,
                                     MatchContext, "WARNING")
                ELSE violations
           /\ play_name' = PlayNameAfter(play_name, value)
           /\ last' = Observe("play_name", <<>>, value, play_name # None)
    /\ Continues
    /\ current_act' = 0
    /\ current_scene' = 0
    /\ UNCHANGED <<flow, compact_flow, earlier, dry_run, files, closed, metadata, characters, include_stack,
                   heap, nodes>>

\* _process_node, case "play_name": no node is yielded
MatchPlayName ==
    /\ AtMatch("play_name")
    /\ LET value == Lines[Top.pos].b
       IN  /\ violations' =
                IF play_name # None
                THEN track_violation(violations, "play_name", play_name, NoContext,
                                     MatchContext, "WARNING")
                ELSE violations
           /\ play_name' = PlayNameAfter(play_name, value)
           /\ last' = Observe("play_name", <<>>, value, play_name # None)
    /\ Continues
    /\ UNCHANGED <<flow, compact_flow, earlier, dry_run, files, closed, metadata, characters, include_stack,
                   current_act, current_scene, heap, nodes>>

\* Node.__post_init__ raised in _process_node: ValueError leaves the parse
MalformedNode(op) ==
    /\ Raises("ValueError", "node", <<>>, MatchContext)
    /\ last' = Observe(op, <<>>, <<>>, FALSE)
    /\ UNCHANGED <<flow, compact_flow, violations, current_act, current_scene, heap, nodes>>

MatchActName ==
    /\ AtMatch("act_name")
    /\ LET value == Lines[Top.pos].b
           acc == ActNode(Acc(heap, violations), value, MatchContext)
           placed == PlaceAct(acc.heap, nodes, acc.ids[1])
       IN  IF ConstructionFails(heap, acc.heap)
           THEN MalformedNode("act_name")
           ELSE /\ current_act' = acc.ids[1]
                /\ current_scene' = SceneAfterAct(current_scene)
                /\ heap' = placed.heap
                /\ nodes' = placed.nodes
                /\ last' = Observe("act_name", acc.ids, value, FALSE)
                /\ Continues
                /\ UNCHANGED violations
    /\ UNCHANGED <<flow, compact_flow, earlier, dry_run, files, closed, play_name, metadata, characters,
                   include_stack>>

MatchSceneName ==
    /\ AtMatch("scene_name")
    /\ LET value == Lines[Top.pos].b
           acc == SceneNode(Acc(heap, violations), value, MatchContext)
           placed == PlaceScene(acc.heap, nodes, acc.ids[1], current_act)
       IN  IF ConstructionFails(heap, acc.heap)
           THEN MalformedNode("scene_name")
           ELSE /\ current_scene' = acc.ids[1]
                /\ heap' = placed.heap
                /\ nodes' = placed.nodes
                /\ last' = Observe("scene_name", acc.ids, value, FALSE)
                /\ Continues
                /\ UNCHANGED <<flow, compact_flow, violations, current_act>>
    /\ UNCHANGED <<flow, compact_flow, earlier, dry_run, files, closed, play_name, metadata, characters,
                   include_stack>>

MatchStageDirection ==
    /\ AtMatch("stage_direction")
    /\ LET value == StageDirectionText(Lines, Top.pos)
           acc == StageDirectionNode(Acc(heap, violations), value, MatchContext)
           placed == Place(acc.heap, nodes, acc.ids, current_scene, current_act)
       IN  IF ConstructionFails(heap, acc.heap)
           THEN MalformedNode("stage_direction")
           ELSE /\ violations' = acc.violations
                /\ heap' = placed.heap
                /\ nodes' = placed.nodes
                /\ last' = Observe("stage_direction", acc.ids, value, FALSE)
                /\ Continues
                /\ UNCHANGED <<flow, compact_flow, current_act, current_scene>>
    /\ UNCHANGED <<flow, compact_flow, earlier, dry_run, files, closed, play_name, metadata, characters,
                   include_stack>>

\* groups speaker and dialogue of one match, in this order
MatchDialogue ==
    /\ AtMatch("dialogue")
    /\ LET speaker == Lines[Top.pos].a
           dialogue == DialogueBody(Lines, Top.pos)
           acc1 == SpeakerNode(Acc(heap, violations), speaker, MatchContext)
           placed1 == Place(acc1.heap, nodes, acc1.ids, current_scene, current_act)
           acc2 == DialogueNode(Acc(placed1.heap, acc1.violations), dialogue,
                                MatchContext)
           placed2 == Place(acc2.heap, placed1.nodes, acc2.ids, current_scene,
                            current_act)
       IN  IF ConstructionFails(heap, acc1.heap)
              \/ ConstructionFails(placed1.heap, acc2.heap)
           THEN MalformedNode("dialogue")
           ELSE /\ violations' = acc2.violations
                /\ heap' = placed2.heap
                /\ nodes' = placed2.nodes
                /\ last' = Observe("dialogue", acc1.ids \o acc2.ids, dialogue, FALSE)
                /\ Continues
                /\ UNCHANGED <<flow, compact_flow, current_act, current_scene>>
    /\ UNCHANGED <<flow, compact_flow, earlier, dry_run, files, closed, play_name, metadata, characters,
                   include_stack>>

(***************************************************************************)
(* Specifications                                                          *)
(***************************************************************************)
\* Tokenizer(dry_run=...) and the call of tokenize on the root file
Start(paths) ==
    /\ dry_run \in BOOLEAN
    /\ files = [p \in paths |-> <<>>]
    /\ closed = [p \in paths |-> FALSE]
    /\ frames = <<[path |-> RootPath, pos |-> 1]>>
    /\ status = "running"
    /\ error = NoError
    /\ play_name = None
    /\ metadata = EmptyDict
    /\ characters = EmptyDict
    /\ violations = <<>>
    /\ include_stack = <<>>
    /\ current_act = 0
    /\ current_scene = 0
    /\ heap = <<>>
    /\ nodes = <<>>
    /\ last = NoMatch
    /\ earlier = <<>>
    /\ flow = <<>>
    /\ compact_flow = <<>>

\* the root file and one more file in its directory
Init == Start(Paths)

\* acts, scenes and their content, with includes
TreeLines ==
    {ActNameLine(<<"x">>), ActNameLine(<<"y">>), SceneNameLine(<<"x">>),
     StageDirectionLine(<<"x">>), DialogueLine(<<"@", "h">>, <<"x">>),
     FunctionLine("include", <<"b">>)}

WriteTree == \E l \in TreeLines : WriteLine(l)

NextTree ==
    \/ WriteTree
    \/ CloseFile
    \/ MatchActName
    \/ MatchSceneName
    \/ MatchStageDirection
    \/ MatchDialogue
    \/ CallInclude
    \/ IncludeDone
    \/ ParseReturn

SpecTree == Init /\ [][NextTree]_vars

(***************************************************************************)
(* The tree                                                                *)
(***************************************************************************)
Ids == 1..Len(heap)

IsSuffix(ids, seq) ==
    /\ Len(ids) <= Len(seq)
    /\ SubSeq(seq, Len(seq) - Len(ids) + 1, Len(seq)) = ids

\* the places of the tree that hold node id: <<0, i>> is StageScript.nodes[i]
PlacesOf(id) ==
    {<<0, i>> : i \in {j \in 1..Len(nodes) : nodes[j] = id}}
    \cup UNION {{<<p, i>> : i \in {j \in 1..Len(heap[p].children) :
                                        heap[p].children[j] = id}} : p \in Ids}

TopLevel(id) == \E i \in 1..Len(nodes) : nodes[i] = id

ChildOf(id, parent) ==
    \E i \in 1..Len(heap[parent].children) : heap[parent].children[i] = id

\* the act constructed last before node id, 0 if there is none
ActBefore(id) ==
    LET acts == {a \in 1..(id - 1) : heap[a].kind = "act"}
    IN  IF acts = {} THEN 0 ELSE CHOOSE a \in acts : \A b \in acts : b <= a

\* the last match placed nodes by the placement rule
Placed == last.op \in {"stage_direction", "dialogue"} /\ status # "raised"

(***************************************************************************)
(* C1: every StageDirection, Speaker or Dialogue node a top-level match    *)
(* produces is appended as the last child of the current scene if one is   *)
(* set, else as the last child of the current act if one is set, else it   *)
(* is yielded at top level; it is in exactly one place of the tree.        *)
(***************************************************************************)
C1_PlacementRule ==
    Placed =>
        /\ last.new # <<>>
        /\ \A i \in 1..Len(last.new) :
            /\ heap[last.new[i]].kind \in {"stage_direction", "speaker", "dialogue"}
            /\ Cardinality(PlacesOf(last.new[i])) = 1
        /\ IF last.scene # 0 THEN IsSuffix(last.new, heap[last.scene].children)
           ELSE IF last.act # 0 THEN IsSuffix(last.new, heap[last.act].children)
           ELSE IsSuffix(last.new, nodes)

\* a dialogue went into a scene of an act
C1_Witness ==
    /\ Placed
    /\ last.op = "dialogue"
    /\ last.scene # 0
    /\ last.act # 0
    /\ Len(last.new) = 2

(***************************************************************************)
(* C2: after an act title, and until the next scene title, every           *)
(* StageDirection, Speaker or Dialogue node is appended to the new Act     *)
(* node, never to a scene that was opened before that act title.           *)
(***************************************************************************)
C2_ActClosesScene ==
    Placed /\ last.act # 0 /\ last.scene < last.act =>
        /\ IsSuffix(last.new, heap[last.act].children)
        /\ \A i \in 1..Len(last.new) : \A p \in Ids :
            ChildOf(last.new[i], p) => p = last.act

\* a stage direction or a dialogue came after an act title that followed a scene
C2_Witness ==
    /\ Placed
    /\ last.scene # 0
    /\ last.scene < last.act
    /\ ChildOf(last.new[1], last.scene)

(***************************************************************************)
(* C3: every Act node is a top-level node of the document and the child of *)
(* no node; every act title, also one of an included file, adds exactly    *)
(* one Act node, at the end of the top-level nodes, whose first child is   *)
(* Text(title).                                                            *)
(***************************************************************************)
C3_ActsAtTopLevel ==
    /\ \A id \in Ids : heap[id].kind = "act" =>
        /\ Cardinality(PlacesOf(id)) = 1
        /\ TopLevel(id)
        /\ heap[id].children # <<>>
        /\ heap[heap[id].children[1]].kind = "text"
    /\ last.op = "act_name" /\ status # "raised" =>
        /\ Len(last.new) = 1
        /\ Cardinality({id \in Ids : heap[id].kind = "act" /\ id > last.nheap}) = 1
        /\ heap[last.new[1]].kind = "act"
        /\ nodes # <<>>
        /\ Len(nodes) = last.nnodes + 1
        /\ nodes[Len(nodes)] = last.new[1]
        /\ heap[heap[last.new[1]].children[1]].text = last.arg

\* an act title of an included file, after an act and a scene of the root file
C3_Witness ==
    /\ last.op = "act_name"
    /\ status # "raised"
    /\ last.context.path # RootPath
    /\ last.act # 0
    /\ last.scene # 0

(***************************************************************************)
(* C4: a scene title makes a Scene node with first child Text(title), that *)
(* becomes the current scene and is appended to the act constructed last   *)
(* before it, or yielded at top level if there is no act yet.  A Scene is  *)
(* never the child of a Scene and is in exactly one place of the tree.     *)
(***************************************************************************)
C4_ScenesUnderLastAct ==
    /\ \A id \in Ids : heap[id].kind = "scene" =>
        /\ Cardinality(PlacesOf(id)) = 1
        /\ \A p \in Ids : ChildOf(id, p) => heap[p].kind = "act" /\ p = ActBefore(id)
        /\ TopLevel(id) => ActBefore(id) = 0
        /\ heap[heap[id].children[1]].kind = "text"
    /\ last.op = "scene_name" /\ status # "raised" =>
        /\ Len(last.new) = 1
        /\ heap[last.new[1]].kind = "scene"
        /\ current_scene = last.new[1]
        /\ heap[heap[last.new[1]].children[1]].text = last.arg
        /\ IF ActBefore(last.new[1]) # 0
           THEN IsSuffix(last.new, heap[ActBefore(last.new[1])].children)
           ELSE IsSuffix(last.new, nodes)

\* a second scene in an act that holds a scene
C4_Witness ==
    /\ last.op = "scene_name"
    /\ status # "raised"
    /\ last.act # 0
    /\ last.scene # 0
    /\ ChildOf(last.scene, last.act)

(***************************************************************************)
(* C5: in every state of a parse no Node has both children and a text,     *)
(* also after children were appended to an act or a scene; no Node the     *)
(* parse constructs is refused by Node.__post_init__.                      *)
(***************************************************************************)
C5_ChildrenXorText ==
    /\ \A id \in Ids : ~Malformed(heap[id].children, heap[id].text)
    /\ error.type # "ValueError"

\* nodes were appended to an act and to its scene after their construction
C5_Witness ==
    \E a \in Ids : \E s \in Ids :
        /\ heap[a].kind = "act"
        /\ heap[s].kind = "scene"
        /\ ChildOf(s, a)
        /\ Len(heap[s].children) >= 2

(***************************************************************************)
(* Specifications of single files whose every line is one match            *)
(***************************************************************************)
\* play titles and metadata
NameLines ==
    {PlayNameLine(<<"x">>), PlayNameLine(<<"y">>), MetadataLine(<<"k">>, <<"1">>),
     MetadataLine(<<"k">>, <<"2">>), MetadataLine(<<"g">>, <<"1">>)}

WriteNames == \E l \in NameLines : WriteLine(l)

NextNames ==
    \/ WriteNames
    \/ CloseFile
    \/ MatchPlayName
    \/ MatchMetadata
    \/ ParseReturn

SpecNames == Init /\ [][NextNames]_vars

\* introductions, and mentions in block stage directions, in dialogue text and
\* in inline stage directions
CastLines ==
    {FunctionLine("introduce", <<"h", ";", " ", "N">>),
     FunctionLine("introduce", <<"h", ";", "M", ";", "x">>),
     StageDirectionLine(<<"@", "h", " ", "x">>),
     StageDirectionLine(<<"x", "@", "(", "F", ")", "h">>),
     DialogueLine(<<"@", "h">>, <<"@", "h", "{", "@", "h", "}">>)}

WriteCast == \E l \in CastLines : WriteLine(l)

NextCast ==
    \/ WriteCast
    \/ CloseFile
    \/ CallIntroduce
    \/ MatchStageDirection
    \/ MatchDialogue
    \/ ParseReturn

SpecCast == Init /\ [][NextCast]_vars

\* the lines of the root file that the scan has passed
Scanned ==
    IF status = "returned" THEN Len(files[RootPath])
    ELSE IF frames # <<>> THEN frames[1].pos - 1
    ELSE 0

RootLine(i) == files[RootPath][i]

\* the scanned lines that satisfy P, in file order
LinesWhere(P(_)) == {i \in 1..Scanned : P(RootLine(i))}

Last(S) == CHOOSE i \in S : \A j \in S : j <= i

First(S) == CHOOSE i \in S : \A j \in S : i <= j

ViolationsWhere(P(_)) == {i \in 1..Len(violations) : P(violations[i])}

IsPlayName(l) == l.k = "play_name"

IsMetadata(l) == l.k = "metadata"

IsIntroduce(l) == l.k = "function" /\ l.a = <<"introduce">>

Arguments(l) == MapStrip(Split(l.b, ";"))

Warns(v, what) == v.severity = "WARNING" /\ v.description.what = what

(***************************************************************************)
(* C6 as claimed: the first play title determines the name, the value of   *)
(* every later play title is ignored.                                      *)
(***************************************************************************)
C6_FirstTitleWins ==
    LET titles == LinesWhere(IsPlayName)
    IN  status # "raised" /\ titles # {} => play_name = RootLine(First(titles)).b

(***************************************************************************)
(* C6 as amended: every play title sets the name; every play title after   *)
(* the first records one Warning that quotes the name it replaces, and the *)
(* parse goes on; the name is the text of the last play title.             *)
(***************************************************************************)
C6_LastTitleWins ==
    LET titles == LinesWhere(IsPlayName)
        warned(v) == Warns(v, "play_name")
    IN  /\ status # "raised"
        /\ IF titles = {} THEN play_name = None
           ELSE play_name = RootLine(Last(titles)).b
        /\ Cardinality(ViolationsWhere(warned)) =
                IF titles = {} THEN 0 ELSE Cardinality(titles) - 1
        /\ last.op = "play_name" /\ last.had =>
                /\ Len(violations) = last.nviol + 1
                /\ violations[Len(violations)].description.arg = last.name
                /\ violations[Len(violations)].context = last.context

\* a second play title with another text has been scanned
C6_Witness ==
    /\ last.op = "play_name"
    /\ last.had
    /\ last.arg # last.name
    /\ play_name = last.arg

(***************************************************************************)
(* C7: an introduce of a handle that is in the registry records exactly    *)
(* one Warning, the parse goes on in both modes and the registry holds the *)
(* latest definition of the handle; an introduce of a new handle records   *)
(* no violation.                                                           *)
(***************************************************************************)
C7_Reintroduce ==
    LET intros == LinesWhere(IsIntroduce)
        handles == {Arguments(RootLine(i))[1] : i \in intros}
        warned(v) == Warns(v, "handle")
        of(h) == {i \in intros : Arguments(RootLine(i))[1] = h}
    IN  /\ status # "raised"
        /\ DOMAIN characters = handles
        /\ \A h \in handles :
            /\ characters[h].handle = h
            /\ characters[h].name = Arguments(RootLine(Last(of(h))))[2]
            /\ characters[h].context = Context(RootPath, Last(of(h)))
            /\ characters[h].introduce =
                    IF Len(Arguments(RootLine(Last(of(h))))) = 3
                    THEN Arguments(RootLine(Last(of(h))))[3]
                    ELSE None
        /\ Cardinality(ViolationsWhere(warned)) =
                Cardinality(intros) - Cardinality(handles)
        /\ last.op = "introduce" =>
                /\ status = "running"
                /\ Len(violations) = last.nviol + (IF last.had THEN 1 ELSE 0)
                /\ last.had => /\ warned(violations[Len(violations)])
                               /\ violations[Len(violations)].description.arg = last.arg
                               /\ violations[Len(violations)].context = last.context

\* a handle has been introduced again, under another name
C7_Witness ==
    /\ last.op = "introduce"
    /\ last.had
    /\ \E i \in 1..(last.context.lineno - 1) :
        /\ IsIntroduce(RootLine(i))
        /\ Arguments(RootLine(i))[1] = last.arg
        /\ Arguments(RootLine(i))[2] # characters[last.arg].name

(***************************************************************************)
(* C8: mentions and the registry at the time of the scan                   *)
(***************************************************************************)
RECURSIVE CountMentions(_, _)
CountMentions(ms, h) ==
    IF ms = <<>> THEN 0
    ELSE (IF Head(ms).group = "mention" /\ MentionParts(Head(ms).value)[1] = h
          THEN 1 ELSE 0) + CountMentions(Tail(ms), h)

\* the mentions of h in a text
MentionsIn(text, h) == CountMentions(StageDirectionMatches(text, 1), h)

RECURSIVE MentionsInSpans(_, _)
MentionsInSpans(ms, h) ==
    IF ms = <<>> THEN 0
    ELSE (IF Head(ms).group = "inline_stage_direction"
          THEN MentionsIn(Head(ms).value, h) ELSE 0) + MentionsInSpans(Tail(ms), h)

\* the mentions of h in the block stage direction or in the inline stage
\* directions of line i
DirectionMentions(i, h) ==
    IF RootLine(i).k = "stage_direction" THEN MentionsIn(RootLine(i).b, h)
    ELSE IF RootLine(i).k = "dialogue"
    THEN MentionsInSpans(DialogueMatches(DialogueBody(files[RootPath], i), 1), h)
    ELSE 0

\* the mentions of h anywhere in line i, dialogue text included
AllMentions(i, h) ==
    IF RootLine(i).k = "stage_direction" THEN MentionsIn(RootLine(i).b, h)
    ELSE IF RootLine(i).k = "dialogue"
    THEN MentionsIn(DialogueBody(files[RootPath], i), h)
    ELSE 0

IntroducedBefore(h, i) ==
    \E j \in 1..(i - 1) : IsIntroduce(RootLine(j)) /\ Arguments(RootLine(j))[1] = h

Unresolved(i, h) ==
    LET at(v) == /\ Warns(v, "mentioned")
                 /\ v.description.arg = h
                 /\ v.context = Context(RootPath, i)
    IN  Cardinality(ViolationsWhere(at))

Handles == {<<"h">>}

(***************************************************************************)
(* C8 as claimed: every mention of h after an introduction of h, in a      *)
(* block stage direction, an inline stage direction or dialogue text,      *)
(* records no violation, and every mention before any introduction of h    *)
(* records exactly one Warning.                                            *)
(***************************************************************************)
C8_MentionsAnywhere ==
    status # "raised" =>
        \A i \in 1..Scanned : \A h \in Handles :
            Unresolved(i, h) = IF IntroducedBefore(h, i) THEN 0 ELSE AllMentions(i, h)

(***************************************************************************)
(* C8 as amended: the same for the mentions in block stage directions and  *)
(* in inline stage directions; dialogue text is not scanned for mentions.  *)
(* A Warning stays when the handle is introduced later.                    *)
(***************************************************************************)
C8_MentionsInDirections ==
    status # "raised" =>
        \A i \in 1..Scanned : \A h \in Handles :
            Unresolved(i, h) =
                IF IntroducedBefore(h, i) THEN 0 ELSE DirectionMentions(i, h)

\* h was mentioned in an inline stage direction, then introduced, then
\* mentioned in a block stage direction
C8_Witness ==
    /\ status = "returned"
    /\ \E i \in 1..Scanned : \E j \in 1..Scanned :
        /\ i < j
        /\ RootLine(i).k = "dialogue"
        /\ Unresolved(i, <<"h">>) = 1
        /\ IntroducedBefore(<<"h">>, j)
        /\ RootLine(j).k = "stage_direction"
        /\ Unresolved(j, <<"h">>) = 0

(***************************************************************************)
(* C9: a metadata line sets metadata[key] to its value; it records exactly *)
(* one Warning if the key was present and none otherwise; metadata[key] is *)
(* the value of the last line with that key.                               *)
(***************************************************************************)
C9_MetadataLastWins ==
    LET lines == LinesWhere(IsMetadata)
        keys == {RootLine(i).a : i \in lines}
        warned(v) == Warns(v, "metadata_key")
        of(k) == {i \in lines : RootLine(i).a = k}
    IN  /\ status # "raised"
        /\ DOMAIN metadata = keys
        /\ \A k \in keys :
            /\ metadata[k].key = k
            /\ metadata[k].value = RootLine(Last(of(k))).b
            /\ metadata[k].context = Context(RootPath, Last(of(k)))
        /\ Cardinality(ViolationsWhere(warned)) =
                Cardinality(lines) - Cardinality(keys)
        /\ last.op = "metadata" =>
                /\ status = "running"
                /\ Len(violations) = last.nviol + (IF last.had THEN 1 ELSE 0)
                /\ last.had => /\ warned(violations[Len(violations)])
                               /\ violations[Len(violations)].description.arg = last.arg

\* a key was set again, to another value
C9_Witness ==
    /\ last.op = "metadata"
    /\ last.had
    /\ \E i \in 1..(last.context.lineno - 1) :
        /\ IsMetadata(RootLine(i))
        /\ RootLine(i).a = last.arg
        /\ RootLine(i).b # metadata[last.arg].value

(***************************************************************************)
(* Specification of calls to a function that is not registered             *)
(***************************************************************************)
CallLines ==
    {FunctionLine("nonexistent", <<"x">>), BareFunctionLine("nonexistent"),
     StageDirectionLine(<<"x">>), FunctionLine("include", <<"b">>)}

WriteCalls == \E l \in CallLines : WriteLine(l)

NextCalls ==
    \/ WriteCalls
    \/ CloseFile
    \/ CallUndefined
    \/ MatchStageDirection
    \/ CallInclude
    \/ IncludeDone
    \/ ParseReturn

SpecCalls == Init /\ [][NextCalls]_vars

(***************************************************************************)
(* C10 as claimed: a call to a function that is not registered records one *)
(* Error violation; in strict mode the parse ends with a ParsingError that *)
(* names the function and the place of the call; in lint mode the call     *)
(* produces no node and the scan goes on with the line after the call, in  *)
(* the same file.                                                          *)
(***************************************************************************)
C10_UndefinedFunction ==
    last.op = "undefined" =>
        /\ Len(violations) = last.nviol + 1
        /\ violations[Len(violations)].severity = "ERROR"
        /\ violations[Len(violations)].description.what = "undefined_function"
        /\ violations[Len(violations)].description.arg = last.arg
        /\ violations[Len(violations)].context = last.context
        /\ IF dry_run
           THEN /\ status = "running"
                /\ Len(heap) = last.nheap
                /\ Len(nodes) = last.nnodes
                /\ Top.path = last.context.path
                /\ Top.pos = last.context.lineno + 1
           ELSE /\ status = "raised"
                /\ error.type = "ParsingError"
                /\ error.arg = last.arg
                /\ error.context = last.context

\* the same with the place where the scan goes on left open
C10_UndefinedFunctionRecorded ==
    last.op = "undefined" =>
        /\ Len(violations) = last.nviol + 1
        /\ violations[Len(violations)].severity = "ERROR"
        /\ violations[Len(violations)].description.arg = last.arg
        /\ IF dry_run
           THEN /\ status = "running"
                /\ Len(heap) = last.nheap
                /\ Len(nodes) = last.nnodes
                /\ Top.path = last.context.path
                /\ Top.pos > last.context.lineno
           ELSE /\ status = "raised"
                /\ error.type = "ParsingError"
                /\ error.arg = last.arg
                /\ error.context = last.context

\* in lint mode a call without arguments has been passed and the line after it
\* was a stage direction
C10_Swallowed ==
    /\ last.op = "undefined"
    /\ dry_run
    /\ Top.pos = last.context.lineno + 2
    /\ files[last.context.path][last.context.lineno + 1].k = "stage_direction"

(***************************************************************************)
(* Specification of includes: of the other file, of the file itself, of a  *)
(* file that does not exist, around stage directions and calls of a        *)
(* function that is not registered                                         *)
(***************************************************************************)
IncludeLines ==
    {FunctionLine("include", <<"b">>), FunctionLine("include", <<"a">>),
     FunctionLine("include", <<"x">>), FunctionLine("nonexistent", <<"x">>),
     StageDirectionLine(<<"x">>)}

WriteInclude == \E l \in IncludeLines : WriteLine(l)

NextInclude ==
    \/ WriteInclude
    \/ CloseFile
    \/ CallInclude
    \/ IncludeDone
    \/ CallUndefined
    \/ MatchStageDirection
    \/ ParseReturn

SpecInclude == Init /\ [][NextInclude]_vars

Errors == {i \in 1..Len(violations) : violations[i].severity = "ERROR"}

(***************************************************************************)
(* C11: an include of a path that is not an existing file records one      *)
(* Error violation; in strict mode the parse ends with a ParsingError; in  *)
(* lint mode the include produces no node, leaves the include stack as it  *)
(* was and the scan goes on with the next line of the including file.      *)
(***************************************************************************)
C11_MissingInclude ==
    last.op = "include_missing" =>
        /\ Len(violations) = last.nviol + 1
        /\ violations[Len(violations)].severity = "ERROR"
        /\ violations[Len(violations)].description.what = "missing_include"
        /\ violations[Len(violations)].description.arg = last.arg
        /\ violations[Len(violations)].context = last.context
        /\ Len(heap) = last.nheap
        /\ Len(nodes) = last.nnodes
        /\ include_stack = last.stack
        /\ IF dry_run
           THEN /\ status = "running"
                /\ Len(frames) = last.depth
                /\ Top.path = last.context.path
                /\ Top.pos = last.context.lineno + 1
           ELSE /\ status = "raised"
                /\ error.type = "ParsingError"
                /\ error.what = "missing_include"
                /\ error.context = last.context

\* in lint mode the stage direction after a missing include, in an included
\* file, has been scanned
C11_Witness ==
    /\ dry_run
    /\ last.op = "stage_direction"
    /\ last.depth = 2
    /\ last.context.lineno > 1
    /\ \E i \in Errors :
        /\ violations[i].description.what = "missing_include"
        /\ violations[i].context =
                Context(last.context.path, last.context.lineno - 1)

\* the include graph of the files
IsInclude(l) == l.k = "function" /\ l.a = <<"include">>

Targets(p) ==
    {ResolvePath(p, Arguments(files[p][i])[1]) :
        i \in {j \in 1..Len(files[p]) : IsInclude(files[p][j])}} \cap DOMAIN files

RECURSIVE ReachableFrom(_)
ReachableFrom(S) ==
    LET T == S \cup UNION {Targets(p) : p \in S}
    IN  IF T = S THEN S ELSE ReachableFrom(T)

\* a file that the root file reaches includes itself, directly or not
Cyclic == \E p \in ReachableFrom({RootPath}) : p \in ReachableFrom(Targets(p))

(***************************************************************************)
(* C12: in strict mode an include that closes a cycle ends the parse with  *)
(* a ParsingError for the circular include; no path is on the include      *)
(* stack twice; a parse whose files include themselves, directly or        *)
(* through another file, never returns a Document.                         *)
(***************************************************************************)
C12_StrictCycleRaises ==
    ~dry_run =>
        /\ \A i \in 1..Len(include_stack) : \A j \in 1..Len(include_stack) :
                include_stack[i] = include_stack[j] => i = j
        /\ last.op = "include_circular" =>
                /\ status = "raised"
                /\ error.type = "ParsingError"
                /\ error.what = "circular_include"
                /\ error.context = last.context
        /\ status = "returned" => ~Cyclic

\* the cycle went through the other file
C12_Witness ==
    /\ ~dry_run
    /\ status = "raised"
    /\ error.what = "circular_include"
    /\ Len(include_stack) = 2
    /\ include_stack[1] # include_stack[2]

\* the include lines of the files the root file reaches
IncludesOf(p) == {i \in 1..Len(files[p]) : IsInclude(files[p][i])}

\* the nodes that the stage direction at line i of file p produced
DirectionsAt(p, i) ==
    {id \in Ids : heap[id].kind = "stage_direction" /\ heap[id].context = Context(p, i)}

(***************************************************************************)
(* C13 as claimed: in lint mode, when the files include themselves through *)
(* one chain of includes (every file on it has one include line), the      *)
(* parse returns with exactly one Error violation and the content of every *)
(* file on the cycle, the root file too, is processed exactly once.        *)
(***************************************************************************)
C13_CycleContentOnce ==
    /\ dry_run
    /\ status = "returned"
    /\ Cyclic
    /\ \A p \in ReachableFrom({RootPath}) : Cardinality(IncludesOf(p)) = 1
    /\ \A i \in Errors : violations[i].description.what = "circular_include"
    =>  /\ Cardinality(Errors) = 1
        /\ \A p \in ReachableFrom({RootPath}) : \A i \in 1..Len(files[p]) :
                files[p][i].k = "stage_direction" =>
                    Cardinality(DirectionsAt(p, i)) = 1

\* in lint mode a root file that includes itself has returned, with one Error
\* and two nodes of its one stage direction
C13_RootTwice ==
    /\ dry_run
    /\ status = "returned"
    /\ Targets(RootPath) = {RootPath}
    /\ Cardinality(Errors) = 1
    /\ \E i \in 1..Len(files[RootPath]) : Cardinality(DirectionsAt(RootPath, i)) = 2

(***************************************************************************)
(* C14: in strict mode the step that records an Error violation ends the   *)
(* parse with a ParsingError for it: the Error is the last violation and   *)
(* the only Error, nothing is scanned after it, and a Document that a      *)
(* strict parse returns holds no Error violation (it is valid).            *)
(***************************************************************************)
C14_StrictStopsAtFirstError ==
    ~dry_run =>
        /\ Errors # {} =>
                /\ Errors = {Len(violations)}
                /\ status = "raised"
                /\ frames = <<>>
                /\ error.type = "ParsingError"
                /\ error.context = violations[Len(violations)].context
                /\ last.op \in {"undefined", "include_missing", "include_circular"}
                /\ last.context = violations[Len(violations)].context
                /\ Len(violations) = last.nviol + 1
                /\ Len(heap) = last.nheap
                /\ Len(nodes) = last.nnodes
        /\ status = "returned" => valid /\ error = NoError

\* a strict parse ended at an undefined function in an included file, after
\* stage directions in both files
C14_Witness ==
    /\ ~dry_run
    /\ status = "raised"
    /\ last.op = "undefined"
    /\ last.depth = 2
    /\ Len(nodes) = 2
    /\ Len(violations) = 1

(***************************************************************************)
(* Specification of calls with a number of arguments that the handler      *)
(* accepts or does not accept                                              *)
(***************************************************************************)
ArityLines ==
    {FunctionLine("introduce", <<"h">>), FunctionLine("introduce", <<"h", ";", "N">>),
     FunctionLine("include", <<"b", ";", "x">>), FunctionLine("include", <<"b">>),
     StageDirectionLine(<<"@", "h">>)}

WriteArity == \E l \in ArityLines : WriteLine(l)

NextArity ==
    \/ WriteArity
    \/ CloseFile
    \/ CallIntroduce
    \/ CallInclude
    \/ IncludeDone
    \/ MatchStageDirection
    \/ ParseReturn

SpecArity == Init /\ [][NextArity]_vars

(***************************************************************************)
(* C15 as claimed: in lint mode the parse of an existing root file never   *)
(* raises, whatever the number of arguments of its function calls.         *)
(***************************************************************************)
C15_LintNeverRaises == dry_run => status # "raised"

\* in lint mode a call of introduce with one argument ended the parse with a
\* TypeError, with no violation recorded for it
C15_LintRaised ==
    /\ dry_run
    /\ status = "raised"
    /\ error.type = "TypeError"
    /\ last.op = "bad_call"
    /\ Len(violations) = last.nviol

(***************************************************************************)
(* Specification of a strict parse followed by a lint parse of the same    *)
(* files                                                                   *)
(***************************************************************************)
ModeLines ==
    {FunctionLine("introduce", <<"h", ";", "N">>),
     StageDirectionLine(<<"@", "h", " ", "x">>),
     DialogueLine(<<"@", "h">>, <<"x">>), ActNameLine(<<"x">>),
     FunctionLine("include", <<"b">>), FunctionLine("nonexistent", <<"x">>)}

WriteModes == \E l \in ModeLines : WriteLine(l)

\* the lint parse after a strict parse that returned
ParseLint == ~dry_run /\ earlier = <<>> /\ ParseAgain(TRUE)

NextModes ==
    \/ WriteModes
    \/ CloseFile
    \/ CallIntroduce
    \/ MatchStageDirection
    \/ MatchDialogue
    \/ MatchActName
    \/ CallInclude
    \/ IncludeDone
    \/ CallUndefined
    \/ ParseReturn
    \/ ParseLint

SpecModes == Init /\ [][NextModes]_vars

(***************************************************************************)
(* C16: when the strict parse of the files returned a Document, the lint   *)
(* parse of the same files returns, with the same name, metadata,          *)
(* characters, node tree and violations.                                   *)
(***************************************************************************)
C16_ModesAgree ==
    earlier # <<>> =>
        /\ status # "raised"
        /\ dry_run
        /\ status = "returned" => StageScript = earlier[1]

\* both parses returned a Document with a Warning and with nodes of an
\* included file
C16_Witness ==
    /\ earlier # <<>>
    /\ status = "returned"
    /\ violations # <<>>
    /\ \E id \in Ids : heap[id].context.path # RootPath

(***************************************************************************)
(* Specification of the conditions that are Warnings                       *)
(***************************************************************************)
WarningLines ==
    {PlayNameLine(<<"x">>), MetadataLine(<<"k">>, <<"1">>),
     FunctionLine("introduce", <<"h", ";", "N">>),
     StageDirectionLine(<<"x", " ", "@", "(", "F", ")", "h">>),
     DialogueLine(<<"@", "h", ",", "@", "g">>, <<"x", "{", "@", "h", "}">>)}

WriteWarnings == \E l \in WarningLines : WriteLine(l)

NextWarnings ==
    \/ WriteWarnings
    \/ CloseFile
    \/ MatchPlayName
    \/ MatchMetadata
    \/ CallIntroduce
    \/ MatchStageDirection
    \/ MatchDialogue
    \/ ParseReturn

SpecWarnings == Init /\ [][NextWarnings]_vars

\* the tree under node id, without the contexts
RECURSIVE Shape(_)
Shape(id) ==
    [kind |-> heap[id].kind, text |-> heap[id].text,
     children |-> [i \in 1..Len(heap[id].children) |-> Shape(heap[id].children[i])]]

Leaf(kind, text) == [kind |-> kind, text |-> text, children |-> <<>>]

Branch(kind, children) == [kind |-> kind, text |-> None, children |-> children]

\* the nodes that a text of a stage direction stands for, whoever is introduced
DirectionShapes(text) ==
    LET ms == StageDirectionMatches(text, 1)
        shape(m) ==
            IF m.group = "stage_direction" THEN Leaf("text", m.value)
            ELSE IF MentionParts(m.value)[2] = None THEN Leaf("mention", m.value)
            ELSE Branch("mention_with_declension",
                        <<Leaf("mention", MentionParts(m.value)[1]),
                          Leaf("declension", MentionParts(m.value)[2])>>)
    IN  [i \in 1..Len(ms) |-> shape(ms[i])]

\* the nodes that the body of a dialogue stands for
DialogueShapes(body) ==
    LET ms == DialogueMatches(body, 1)
        shape(m) ==
            IF m.group = "inline_stage_direction"
            THEN Branch("inline_stage_direction", DirectionShapes(m.value))
            ELSE Leaf("dialogue", m.value)
    IN  [i \in 1..Len(ms) |-> shape(ms[i])]

SpeakerHandles(speakers) ==
    LET parts == Split(Strip(speakers), ",")
    IN  [i \in 1..Len(parts) |-> LStripSet(Strip(parts[i]), {"@"})]

SpeakerShapes(speakers) ==
    [i \in 1..Len(SpeakerHandles(speakers)) |->
        Leaf("speaker", SpeakerHandles(speakers)[i])]

\* the nodes that the match at line i of file p stands for
ExpectedShapes(p, i) ==
    LET l == files[p][i]
    IN  IF l.k = "stage_direction"
        THEN <<Branch("stage_direction", DirectionShapes(l.b))>>
        ELSE IF l.k = "dialogue"
        THEN <<Branch("speaker", SpeakerShapes(l.a)),
               Branch("dialogue", DialogueShapes(DialogueBody(files[p], i)))>>
        ELSE <<>>

\* the number of references of line i of file p to handles not in the registry
UnknownReferences(p, i) ==
    LET l == files[p][i]
        hs == SpeakerHandles(l.a)
        speakers == IF l.k = "dialogue"
                    THEN Cardinality({j \in 1..Len(hs) : hs[j] \notin DOMAIN characters})
                    ELSE 0
    IN  speakers + (IF <<"h">> \in DOMAIN characters THEN 0
                    ELSE DirectionMentions(i, <<"h">>))

(***************************************************************************)
(* C17: a duplicate play title, handle or metadata key, an unknown speaker *)
(* and an unknown mention each record one violation of severity Warning,   *)
(* in both modes; the parse goes on after the match (for a dialogue, after *)
(* the lines its text runs over), and the match produces the nodes its     *)
(* text stands for, flagged or not.                                        *)
(***************************************************************************)
C17_WarningsDoNotAbort ==
    /\ status # "raised"
    /\ \A i \in 1..Len(violations) : violations[i].severity = "WARNING"
    /\ last.op \in {"play_name", "metadata", "introduce", "stage_direction",
                    "dialogue"} =>
        /\ status = "running"
        /\ Top.pos > last.context.lineno
        /\ \A j \in (last.context.lineno + 1)..(Top.pos - 1) :
                last.op = "dialogue" /\ ~StopLine(Lines[j])
        /\ Len(violations) = last.nviol +
                (IF last.op \in {"stage_direction", "dialogue"}
                 THEN UnknownReferences(last.context.path, last.context.lineno)
                 ELSE IF last.had THEN 1 ELSE 0)
        /\ [i \in 1..Len(last.new) |-> Shape(last.new[i])] =
                ExpectedShapes(last.context.path, last.context.lineno)
        /\ last.new = <<>> => Len(heap) = last.nheap

\* a dialogue of two speakers that were not introduced, with a mention of one
\* of them, recorded three Warnings
C17_Witness ==
    /\ last.op = "dialogue"
    /\ Len(violations) = last.nviol + 3
    /\ Len(last.new) = 2
    /\ status = "running"

(***************************************************************************)
(* C18: while a parse runs, and when it has returned, the include stack    *)
(* holds the resolved paths of the files being tokenized through an        *)
(* include, in the order of nesting; an include pushes the path before any *)
(* line of the file is scanned; the end of the included file pops it; the  *)
(* stack is empty when Tokenizer.parse returns.                            *)
(***************************************************************************)
C18_IncludeStack ==
    status # "raised" =>
        /\ include_stack = [i \in 1..(Len(frames) - 1) |-> as_posix(frames[i + 1].path)]
        /\ status = "returned" => include_stack = <<>>
        /\ last.op = "include" =>
                /\ include_stack = Append(last.stack, as_posix(Top.path))
                /\ Top.path = ResolvePath(last.context.path, last.arg)
                /\ Top.pos = 1
                /\ Len(frames) = last.depth + 1
                /\ Len(heap) = last.nheap
        /\ last.op = "include_done" =>
                /\ include_stack = SubSeq(last.stack, 1, Len(last.stack) - 1)
                /\ Len(frames) = last.depth - 1

\* the end of a file that was included by an included file
C18_Witness ==
    /\ last.op = "include_done"
    /\ last.depth = 3
    /\ Len(last.stack) = 2
    /\ Len(include_stack) = 1
    /\ status = "running"

(***************************************************************************)
(* Specification of a parse of a root file that includes the other file,   *)
(* followed by a parse of the root file with every include line replaced   *)
(* by the lines of the included file                                       *)
(***************************************************************************)
SubstituteLines ==
    {FunctionLine("include", <<"b">>), ActNameLine(<<"x">>),
     FunctionLine("introduce", <<"h", ";", "N">>),
     StageDirectionLine(<<"@", "h">>), DialogueLine(<<"@", "h">>, <<"x">>)}

WriteSubstitute == \E l \in SubstituteLines : WriteLine(l)

\* the text of the root file with the include lines replaced
RECURSIVE Substitute(_)
Substitute(lines) ==
    IF lines = <<>> THEN <<>>
    ELSE (IF IsInclude(Head(lines))
          THEN files[ResolvePath(RootPath, Arguments(Head(lines))[1])]
          ELSE <<Head(lines)>>) \o Substitute(Tail(lines))

\* the included file includes nothing, the root file includes it
Substitutable ==
    /\ Targets(RootPath) = {<< <<"b">> >>}
    /\ Targets(<< <<"b">> >>) = {}

ParseSubstituted ==
    /\ earlier = <<>>
    /\ Substitutable
    /\ Restart(dry_run)
    /\ files' = [files EXCEPT ![RootPath] = Substitute(files[RootPath])]
    /\ UNCHANGED <<flow, compact_flow, closed>>

NextSubstitute ==
    \/ WriteSubstitute
    \/ CloseFile
    \/ CallInclude
    \/ IncludeDone
    \/ CallIntroduce
    \/ MatchActName
    \/ MatchStageDirection
    \/ MatchDialogue
    \/ ParseReturn
    \/ ParseSubstituted

SpecSubstitute == Init /\ [][NextSubstitute]_vars

\* a StageScript without its Contexts
Plain(doc) ==
    [name |-> doc.name,
     metadata |-> [k \in DOMAIN doc.metadata |->
                    [key |-> doc.metadata[k].key, value |-> doc.metadata[k].value]],
     characters |-> [h \in DOMAIN doc.characters |->
                    [handle |-> doc.characters[h].handle,
                     name |-> doc.characters[h].name,
                     introduce |-> doc.characters[h].introduce]],
     nodes |-> doc.nodes,
     heap |-> [i \in 1..Len(doc.heap) |->
                    [kind |-> doc.heap[i].kind, text |-> doc.heap[i].text,
                     children |-> doc.heap[i].children]],
     violations |-> [i \in 1..Len(doc.violations) |->
                    [severity |-> doc.violations[i].severity,
                     what |-> doc.violations[i].description.what,
                     arg |-> doc.violations[i].description.arg]]]

ContextLines ==
    {FunctionLine("include", <<"b">>), ActNameLine(<<"x">>), ActNameLine(<<"y">>),
     StageDirectionLine(<<"@", "h">>), FunctionLine("introduce", <<"h", ";", "N">>),
     MetadataLine(<<"k">>, <<"1">>)}

WriteContexts == \E l \in ContextLines : WriteLine(l)

NextContexts ==
    \/ WriteContexts
    \/ CloseFile
    \/ CallInclude
    \/ IncludeDone
    \/ MatchActName
    \/ MatchStageDirection
    \/ CallIntroduce
    \/ MatchMetadata
    \/ ParseReturn

SpecContexts == Init /\ [][NextContexts]_vars

\* c is a line of a file
Within(c) == c.path \in DOMAIN files /\ c.lineno \in 1..Len(files[c.path])

LineAt(c) == files[c.path][c.lineno]

Children(id) == [i \in 1..Len(heap[id].children) |-> Shape(heap[id].children[i])]

(***************************************************************************)
(* C20: the Context of every node, character, metadata entry and violation *)
(* is a line of a file, and that line, of that file, is the text the entry *)
(* came from: for content of an included file the path is the resolved     *)
(* path of the included file and the line number counts its lines.         *)
(***************************************************************************)
C20_ContextsOfOwnFile ==
    /\ \A id \in Ids :
        LET c == heap[id].context
        IN  /\ Within(c)
            /\ heap[id].kind \in {"act", "stage_direction", "text", "mention"}
            /\ heap[id].kind = "act" =>
                    /\ LineAt(c).k = "act_name"
                    /\ Children(id)[1] = Leaf("text", LineAt(c).b)
                    /\ heap[heap[id].children[1]].context = c
            /\ heap[id].kind = "stage_direction" =>
                    /\ LineAt(c).k = "stage_direction"
                    /\ Children(id) = DirectionShapes(LineAt(c).b)
                    /\ \A i \in 1..Len(heap[id].children) :
                            heap[heap[id].children[i]].context = c
            /\ heap[id].kind \in {"text", "mention"} =>
                    LineAt(c).k \in {"act_name", "stage_direction"}
    /\ \A h \in DOMAIN characters :
        LET c == characters[h].context
        IN  /\ Within(c)
            /\ IsIntroduce(LineAt(c))
            /\ Arguments(LineAt(c))[1] = h
            /\ Arguments(LineAt(c))[2] = characters[h].name
    /\ \A k \in DOMAIN metadata :
        LET c == metadata[k].context
        IN  /\ Within(c)
            /\ LineAt(c) = MetadataLine(k, metadata[k].value)
    /\ \A i \in 1..Len(violations) :
        LET c == violations[i].context
            d == violations[i].description
        IN  /\ Within(c)
            /\ d.what \in {"mentioned", "handle", "metadata_key", "circular_include"}
            /\ d.what = "circular_include" =>
                    /\ IsInclude(LineAt(c))
                    /\ as_posix(ResolvePath(c.path, Arguments(LineAt(c))[1])) = d.arg
            /\ d.what = "mentioned" =>
                    /\ LineAt(c).k = "stage_direction"
                    /\ MentionsIn(LineAt(c).b, d.arg) > 0
            /\ d.what = "handle" =>
                    /\ IsIntroduce(LineAt(c)) /\ Arguments(LineAt(c))[1] = d.arg
                    /\ Within(d.ref)
                    /\ IsIntroduce(LineAt(d.ref))
            /\ d.what = "metadata_key" =>
                    /\ LineAt(c).k = "metadata" /\ LineAt(c).a = d.arg
                    /\ Within(d.ref)
                    /\ LineAt(d.ref).k = "metadata"
    /\ last.op \in {"act_name", "stage_direction", "introduce", "metadata"} =>
        /\ Within(last.context)
        /\ last.context.path = (IF last.depth = 1 THEN RootPath ELSE << <<"b">> >>)
        /\ \A id \in (last.nheap + 1)..Len(heap) : heap[id].context = last.context
        /\ \A i \in (last.nviol + 1)..Len(violations) :
                violations[i].context = last.context

\* an act, a violation and a character came from line 2 or later of the
\* included file, the root file has another text at those lines
C20_Witness ==
    /\ status = "returned"
    /\ \E id \in Ids :
        /\ heap[id].kind = "act"
        /\ heap[id].context.path = << <<"b">> >>
        /\ heap[id].context.lineno = 2
        /\ Len(files[RootPath]) >= 2
        /\ files[RootPath][2] # LineAt(heap[id].context)
    /\ \E i \in 1..Len(violations) : violations[i].context = Context(<< <<"b">> >>, 1)

(***************************************************************************)
(* Specification of includes among files of two directories                *)
(***************************************************************************)
DirLines ==
    {FunctionLine("include", <<"d", "/", "b">>), FunctionLine("include", <<"c">>),
     FunctionLine("include", <<".", ".", "/", "d", "/", "b">>),
     FunctionLine("include", <<".", ".", "/", "a">>), StageDirectionLine(<<"x">>)}

WriteDirs == \E l \in DirLines : WriteLine(l)

NextDirs ==
    \/ WriteDirs
    \/ CloseFile
    \/ CallInclude
    \/ IncludeDone
    \/ MatchStageDirection
    \/ ParseReturn

InitDirs == Start(DirPaths)

SpecDirs == InitDirs /\ [][NextDirs]_vars

\* the directory of a file
DirOf(path) == SubSeq(path, 1, Len(path) - 1)

\* the directory above a directory; the top directory has none above it
Up(dir) == IF dir = <<>> THEN dir ELSE SubSeq(dir, 1, Len(dir) - 1)

\* the file that the include path p names from a file of directory dir
Joined(dir, p) ==
    CASE p = <<"d", "/", "b">> -> dir \o << <<"d">>, <<"b">> >>
      [] p = <<"c">> -> dir \o << <<"c">> >>
      [] p = <<".", ".", "/", "d", "/", "b">> -> Up(dir) \o << <<"d">>, <<"b">> >>
      [] p = <<".", ".", "/", "a">> -> Up(dir) \o << <<"a">> >>

OnStack(stack, path) == \E i \in 1..Len(stack) : stack[i] = as_posix(path)

(***************************************************************************)
(* C21: an include line with path p names the file p from the directory of *)
(* the file that holds the line (for a line of an included file, that      *)
(* file's directory, not the root file's); the existence test, the cycle   *)
(* test and the entry pushed on the include stack are about that file.     *)
(***************************************************************************)
C21_ResolvesFromIncluder ==
    last.op \in {"include", "include_circular", "include_missing"} =>
        LET target == Joined(DirOf(last.context.path), last.arg)
        IN  /\ last.op = "include_missing" <=> target \notin DOMAIN files
            /\ last.op = "include_circular" <=>
                    target \in DOMAIN files /\ OnStack(last.stack, target)
            /\ last.op = "include_circular" =>
                    violations[Len(violations)].description.arg = as_posix(target)
            /\ last.op = "include" =>
                    /\ Top = [path |-> target, pos |-> 1]
                    /\ include_stack = Append(last.stack, as_posix(target))

\* the file d/b includes "c": the scan is in d/c, and c is another file
C21_Witness ==
    /\ last.op = "include"
    /\ last.context.path = << <<"d">>, <<"b">> >>
    /\ last.arg = <<"c">>
    /\ Top.path = << <<"d">>, <<"c">> >>
    /\ include_stack = <<as_posix(<< <<"d">>, <<"b">> >>), as_posix(Top.path)>>

(***************************************************************************)
(* Specification of dialogues of one and of two speakers, at top level, in *)
(* acts and in scenes                                                      *)
(***************************************************************************)
SpeakerLines ==
    {ActNameLine(<<"x">>), SceneNameLine(<<"x">>),
     FunctionLine("introduce", <<"h", ";", "N">>),
     DialogueLine(<<"@", "h", ",", "@", "g">>, <<"x">>),
     DialogueLine(<<"@", "g", ",", " ", "@", "h">>, <<"x">>),
     DialogueLine(<<"@", "g">>, <<"x">>), StageDirectionLine(<<"x">>)}

WriteSpeakers == \E l \in SpeakerLines : WriteLine(l)

NextSpeakers ==
    \/ WriteSpeakers
    \/ CloseFile
    \/ MatchActName
    \/ MatchSceneName
    \/ CallIntroduce
    \/ MatchDialogue
    \/ MatchStageDirection
    \/ ParseReturn

SpecSpeakers == Init /\ [][NextSpeakers]_vars

\* the handles before the colon of a dialogue line, in source order
HandlesOf(speaker) ==
    CASE speaker = <<"@", "h", ",", "@", "g">> -> << <<"h">>, <<"g">> >>
      [] speaker = <<"@", "g", ",", " ", "@", "h">> -> << <<"g">>, <<"h">> >>
      [] speaker = <<"@", "g">> -> << <<"g">> >>

\* the handles of hs that are not in the registry, in the order of hs
Strangers(hs) ==
    LET unknown(h) == h \notin DOMAIN characters
    IN  SelectSeq(hs, unknown)

(***************************************************************************)
(* C22: a dialogue match leaves exactly two nodes, next to each other in   *)
(* one container: a Speaker node whose children are one Speaker node per   *)
(* handle, in source order, with the handle without "@" as text, and then  *)
(* a Dialogue node; every handle that is not in the registry, and nothing  *)
(* else of the speakers, records one Warning.                              *)
(***************************************************************************)
C22_SpeakerThenDialogue ==
    last.op = "dialogue" /\ status # "raised" =>
        LET hs == HandlesOf(LineAt(last.context).a)
            new == SubSeq(violations, last.nviol + 1, Len(violations))
        IN  /\ Len(last.new) = 2
            /\ Shape(last.new[1]) =
                    Branch("speaker", [i \in 1..Len(hs) |-> Leaf("speaker", hs[i])])
            /\ heap[last.new[2]].kind = "dialogue"
            /\ \E place \in PlacesOf(last.new[1]) :
                    /\ PlacesOf(last.new[1]) = {place}
                    /\ PlacesOf(last.new[2]) = {<<place[1], place[2] + 1>>}
            /\ [i \in 1..Len(new) |-> new[i].description.arg] = Strangers(hs)
            /\ \A i \in 1..Len(new) :
                    /\ new[i].severity = "WARNING"
                    /\ new[i].description.what = "speaks"
                    /\ new[i].context = last.context

\* a dialogue of g, not introduced, and h, introduced, in a scene after
\* another node of the scene
C22_Witness ==
    /\ last.op = "dialogue"
    /\ status # "raised"
    /\ last.scene # 0
    /\ LineAt(last.context).a = <<"@", "g", ",", " ", "@", "h">>
    /\ <<"h">> \in DOMAIN characters
    /\ Len(violations) = last.nviol + 1
    /\ Len(heap[last.scene].children) = 4

(***************************************************************************)
(* Specification of stage directions written as sequences of text runs,    *)
(* mentions and mentions with a declension                                 *)
(***************************************************************************)
TextRun(text) == [k |-> "text", handle |-> <<>>, form |-> <<>>, text |-> text]

MentionOf(handle) == [k |-> "mention", handle |-> handle, form |-> <<>>, text |-> <<>>]

Declined(form, handle) ==
    [k |-> "declined", handle |-> handle, form |-> form, text |-> <<>>]

carl == <<"c", "a", "r", "l">>

waves == <<" ", "w", "a", "v", "e", "s">>

Directions ==
    {<<MentionOf(carl), TextRun(waves)>>,
     <<TextRun(<<"x", " ">>), MentionOf(<<"h">>), TextRun(waves)>>,
     <<MentionOf(<<"h">>), TextRun(<<" ">>), Declined(<<"F">>, <<"h">>)>>,
     <<Declined(<<"F", "o">>, carl), MentionOf(<<"h">>)>>,
     <<TextRun(waves)>>,
     <<Declined(<<"F">>, <<"h">>)>>}

\* the characters of a token as the author writes it
Written(t) ==
    CASE t.k = "text" -> t.text
      [] t.k = "mention" -> <<"@">> \o t.handle
      [] t.k = "declined" -> <<"@", "(">> \o t.form \o <<")">> \o t.handle

RECURSIVE Render(_)
Render(ts) == IF ts = <<>> THEN <<>> ELSE Written(Head(ts)) \o Render(Tail(ts))

MentionLines ==
    {StageDirectionLine(Render(ts)) : ts \in Directions}
    \cup {FunctionLine("introduce", <<"h", ";", "N">>)}

WriteMentions == \E l \in MentionLines : WriteLine(l)

NextMentions ==
    \/ WriteMentions
    \/ CloseFile
    \/ CallIntroduce
    \/ MatchStageDirection
    \/ ParseReturn

SpecMentions == Init /\ [][NextMentions]_vars

\* the node that a token stands for
NodeOf(t) ==
    CASE t.k = "text" -> Leaf("text", t.text)
      [] t.k = "mention" -> Leaf("mention", t.handle)
      [] t.k = "declined" ->
            Branch("mention_with_declension",
                   <<Leaf("mention", t.handle), Leaf("declension", t.form)>>)

NodesOf(ts) == [i \in 1..Len(ts) |-> NodeOf(ts[i])]

\* the handles that the tokens of ts mention and the registry does not hold
RECURSIVE StrangersOf(_)
StrangersOf(ts) ==
    IF ts = <<>> THEN <<>>
    ELSE (IF Head(ts).k # "text" /\ Head(ts).handle \notin DOMAIN characters
          THEN <<Head(ts).handle>> ELSE <<>>) \o StrangersOf(Tail(ts))

(***************************************************************************)
(* C23: the children of a StageDirection node are the tokens of its text   *)
(* in source order: a Text node per text run, a Mention node with the      *)
(* handle as text per "@handle", and per "@(Form)handle" a                 *)
(* MentionWithDeclension node with the children Mention(handle) and        *)
(* Declension(Form); every mention of a handle that is not in the registry *)
(* records one Warning.                                                    *)
(***************************************************************************)
C23_MentionTokens ==
    last.op = "stage_direction" /\ status # "raised" =>
        LET text == LineAt(last.context).b
            new == SubSeq(violations, last.nviol + 1, Len(violations))
        IN  /\ \E ts \in Directions : text = Render(ts)
            /\ \A ts \in Directions :
                text = Render(ts) =>
                    /\ Len(last.new) = 1
                    /\ Shape(last.new[1]) = Branch("stage_direction", NodesOf(ts))
                    /\ [i \in 1..Len(new) |-> new[i].description.arg] =
                            StrangersOf(ts)
                    /\ \A i \in 1..Len(new) :
                            /\ new[i].severity = "WARNING"
                            /\ new[i].description.what = "mentioned"

\* "> @carl waves", carl not introduced: a Mention, a Text and one Warning
C23_Witness ==
    /\ last.op = "stage_direction"
    /\ LineAt(last.context).b = <<"@">> \o carl \o waves
    /\ Children(last.new[1]) = <<Leaf("mention", carl), Leaf("text", waves)>>
    /\ Len(violations) = last.nviol + 1
    /\ violations[Len(violations)].severity = "WARNING"

(***************************************************************************)
(* Specification of dialogues whose bodies are written as sequences of     *)
(* text runs and "{...}" spans, over one or more physical lines            *)
(***************************************************************************)
Span(ts) == [k |-> "span", text |-> <<>>, tokens |-> ts]

Run(text) == [k |-> "run", text |-> text, tokens |-> <<>>]

Bodies ==
    {<<Run(<<"h", "i", " ">>), Span(<<TextRun(<<"x", " ">>), MentionOf(carl)>>),
       Run(<<" ", "y">>)>>,
     <<Run(<<"x">>), Span(<<MentionOf(<<"h">>)>>)>>,
     <<Span(<<Declined(<<"F">>, <<"h">>)>>), Run(<<" ", "y">>)>>,
     <<Run(<<"x">>)>>}

\* the characters of a part of a body as the author writes it
WrittenPart(part) ==
    IF part.k = "span" THEN <<"{">> \o Render(part.tokens) \o <<"}">> ELSE part.text

RECURSIVE RenderBody(_)
RenderBody(parts) ==
    IF parts = <<>> THEN <<>> ELSE WrittenPart(Head(parts)) \o RenderBody(Tail(parts))

SpanLines ==
    {DialogueLine(<<"@", "h">>, RenderBody(parts)) : parts \in Bodies}
    \cup {PlainLine(<<"z">>), FunctionLine("introduce", <<"h", ";", "N">>)}

WriteSpans == \E l \in SpanLines : WriteLine(l)

NextSpans ==
    \/ WriteSpans
    \/ CloseFile
    \/ CallIntroduce
    \/ MatchDialogue
    \/ ScanUnmatched
    \/ ParseReturn

SpecSpans == Init /\ [][NextSpans]_vars

\* the node that a part of a body stands for
NodeOfPart(part) ==
    IF part.k = "span" THEN Branch("inline_stage_direction", NodesOf(part.tokens))
    ELSE Leaf("dialogue", part.text)

\* the spans and runs of a body that is written as parts and goes on with the
\* text rest, which has no brace: rest is text after the last part
PartsWith(parts, rest) ==
    IF parts[Len(parts)].k = "run"
    THEN [parts EXCEPT ![Len(parts)].text = @ \o rest]
    ELSE Append(parts, Run(rest))

\* the text from the end of line i of file p to the start of line j
RECURSIVE Between(_, _, _)
Between(p, i, j) ==
    IF i + 1 >= j THEN <<NL>>
    ELSE <<NL>> \o files[p][i + 1].b \o Between(p, i + 1, j)

(***************************************************************************)
(* C24: the children of a Dialogue node are the parts of its body in       *)
(* source order: per "{...}" span an InlineStageDirection node whose       *)
(* children are the Text and mention nodes of the span's content, and per  *)
(* run of text between spans a Dialogue node with that text.  The body     *)
(* runs to the next stop line, so the line ends in it are text of a run.   *)
(***************************************************************************)
C24_SpansAndRuns ==
    last.op = "dialogue" /\ status = "running" =>
        LET c == last.context
            rest == Between(c.path, c.lineno, Top.pos)
        IN  /\ \E parts \in Bodies : LineAt(c).b = RenderBody(parts)
            /\ \A parts \in Bodies :
                LineAt(c).b = RenderBody(parts) =>
                    /\ heap[last.new[2]].kind = "dialogue"
                    /\ heap[last.new[2]].text = None
                    /\ Children(last.new[2]) =
                            [i \in 1..Len(PartsWith(parts, rest)) |->
                                NodeOfPart(PartsWith(parts, rest)[i])]

\* "hi {x @carl} y" that goes on in the next line: a run, a span with a
\* text and a mention, a run of two lines
C24_Witness ==
    /\ last.op = "dialogue"
    /\ status = "running"
    /\ Top.pos = last.context.lineno + 2
    /\ Children(last.new[2]) =
            <<Leaf("dialogue", <<"h", "i", " ">>),
              Branch("inline_stage_direction",
                     <<Leaf("text", <<"x", " ">>), Leaf("mention", carl)>>),
              Leaf("dialogue", <<" ", "y", NL, "z", NL>>)>>

\* the violations of lines of the root file are in the order of its lines
RootInLineOrder(vs) ==
    \A i, j \in 1..Len(vs) :
        i < j /\ vs[i].context.path = RootPath /\ vs[j].context.path = RootPath =>
            vs[i].context.lineno <= vs[j].context.lineno

(***************************************************************************)
(* C25: the list of violations only grows at its end: every step of a      *)
(* parse, in the root file or in an included file, leaves the violations   *)
(* recorded so far in place and appends the ones of the match the scan is  *)
(* at, so the list is in the order in which the scan, which enters an      *)
(* included file at its include line, comes across them.                   *)
(***************************************************************************)
C25_AppendOnly ==
    [][/\ Len(violations') >= Len(violations)
       /\ SubSeq(violations', 1, Len(violations)) = violations
       /\ \A i \in (Len(violations) + 1)..Len(violations') :
            violations'[i].context = MatchContext
       /\ RootInLineOrder(violations')]_vars

\* violations of line 1 of the root file, of the included file, and of a line
\* of the root file after the include, in this order
C25_Witness ==
    /\ Len(violations) = 3
    /\ violations[1].context = Context(RootPath, 1)
    /\ violations[2].context.path = << <<"b">> >>
    /\ violations[3].context = Context(RootPath, 3)

(***************************************************************************)
(* Specification of files with comment lines, parsed as they are and then  *)
(* without their comment lines                                             *)
(***************************************************************************)
CommentLines ==
    {DialogueLine(<<"@", "h">>, <<"x">>), PlainLine(<<"y">>), CommentLine(<<" ", "c">>),
     StageDirectionLine(<<"x">>)}

WriteComments == \E l \in CommentLines : WriteLine(l)

\* the lines of a file that do not start with "%"
Uncommented(lines) ==
    LET kept(l) == l.k # "comment"
    IN  SelectSeq(lines, kept)

\* Tokenizer.parse of the files without their comment lines
ParseUncommented ==
    /\ earlier = <<>>
    /\ Restart(dry_run)
    /\ files' = [p \in DOMAIN files |-> Uncommented(files[p])]
    /\ UNCHANGED <<flow, compact_flow, closed>>

NextComments ==
    \/ WriteComments
    \/ CloseFile
    \/ MatchDialogue
    \/ MatchStageDirection
    \/ ScanUnmatched
    \/ ParseReturn
    \/ ParseUncommented

SpecComments == Init /\ [][NextComments]_vars

FreshLines ==
    {FunctionLine("introduce", <<"h", ";", "N">>), StageDirectionLine(<<"@", "h">>),
     MetadataLine(<<"k">>, <<"1">>), PlayNameLine(<<"P">>),
     FunctionLine("include", <<"b">>)}

WriteFresh == \E l \in FreshLines : WriteLine(l)

\* Tokenizer.parse of the other file
ParseOther ==
    /\ Len(earlier) = 0
    /\ RestartAt(<< <<"b">> >>, dry_run)
    /\ UNCHANGED <<flow, compact_flow, files, closed>>

\* Tokenizer.parse of the root file after the parse of the other file
ParseRootAgain ==
    /\ Len(earlier) = 1
    /\ RestartAt(RootPath, dry_run)
    /\ UNCHANGED <<flow, compact_flow, files, closed>>

NextFresh ==
    \/ WriteFresh
    \/ CloseFile
    \/ CallIntroduce
    \/ MatchStageDirection
    \/ MatchMetadata
    \/ MatchPlayName
    \/ CallInclude
    \/ IncludeDone
    \/ ParseReturn
    \/ ParseOther
    \/ ParseRootAgain

SpecFresh == Init /\ [][NextFresh]_vars

\* the contexts of the characters, metadata, violations and nodes of a document
ContextsOf(doc) ==
    {doc.characters[h].context : h \in DOMAIN doc.characters}
    \cup {doc.metadata[k].context : k \in DOMAIN doc.metadata}
    \cup {doc.violations[i].context : i \in 1..Len(doc.violations)}
    \cup {doc.heap[i].context : i \in 1..Len(doc.heap)}

(***************************************************************************)
(* C27: every parse starts from a Tokenizer of its own: the Document of    *)
(* the root file parsed after another document is the Document of the root *)
(* file parsed first, and the document parsed in between holds nothing     *)
(* that came from a file it does not read.                                 *)
(***************************************************************************)
C27_FreshEngine ==
    /\ Len(earlier) = 2 /\ status = "returned" => StageScript = earlier[1]
    /\ Len(earlier) = 2 =>
            \A c \in ContextsOf(earlier[2]) : c.path = << <<"b">> >>

\* the root file mentions h and has a title, the other file introduces h and
\* has a metadata entry, and is not included: the parse of the root file
\* after the parse of the other file records the Warning again and has no
\* character and no metadata
C27_Witness ==
    /\ Len(earlier) = 2
    /\ status = "returned"
    /\ DOMAIN earlier[2].characters = {<<"h">>}
    /\ DOMAIN earlier[2].metadata # {}
    /\ earlier[2].name = None
    /\ play_name # None
    /\ Len(violations) = 1
    /\ DOMAIN characters = {}
    /\ DOMAIN metadata = {}

\* the files that the message of the exception names: the file of its
\* location and the path it holds
NamedIn(e) == {as_posix(e.context.path), e.arg}

CycleRaised == status = "raised" /\ error.what = "circular_include"

DiamondLines ==
    {FunctionLine("include", <<"d", "/", "b">>), FunctionLine("include", <<"d", "/", "c">>),
     FunctionLine("include", <<"c">>), StageDirectionLine(<<"x">>)}

WriteDiamond == \E l \in DiamondLines : WriteLine(l)

NextDiamond ==
    \/ WriteDiamond
    \/ CloseFile
    \/ CallInclude
    \/ IncludeDone
    \/ MatchStageDirection
    \/ ParseReturn

SpecDiamond == InitDirs /\ [][NextDiamond]_vars

\* the number of include lines of file q that name file p
Links(q, p) ==
    Cardinality({i \in IncludesOf(q) :
                    ResolvePath(q, Arguments(files[q][i])[1]) = p})

\* the number of times a parse without a cycle reads file p: once for the
\* root file, and once per include line that names p and is read
RECURSIVE Visits(_)
RECURSIVE VisitsFrom(_, _)
VisitsFrom(qs, p) ==
    IF qs = {} THEN 0
    ELSE LET q == CHOOSE r \in qs : TRUE
         IN  (IF Links(q, p) = 0 THEN 0 ELSE Links(q, p) * Visits(q))
             + VisitsFrom(qs \ {q}, p)

Visits(p) == (IF p = RootPath THEN 1 ELSE 0) + VisitsFrom(DOMAIN files, p)

(***************************************************************************)
(* C29: when no file that the parse reaches includes itself, directly or   *)
(* not, no circular include is recorded, however often a file is included: *)
(* a file included twice in a row, or by two files, is read at each of     *)
(* its includes, and each of its stage directions leaves one node per      *)
(* include.                                                                *)
(***************************************************************************)
C29_ActiveChainOnly ==
    status = "returned" /\ ~Cyclic =>
        /\ \A i \in 1..Len(violations) :
                violations[i].description.what # "circular_include"
        /\ \A p \in DOMAIN files :
            \A i \in 1..Len(files[p]) :
                files[p][i].k = "stage_direction" =>
                    Cardinality(DirectionsAt(p, i)) = Visits(p)

\* a diamond: the root file includes d/b and d/c, d/b includes d/c, and the
\* stage direction of d/c left two nodes
C29_Witness ==
    /\ status = "returned"
    /\ ~Cyclic
    /\ Targets(RootPath) = {<< <<"d">>, <<"b">> >>, << <<"d">>, <<"c">> >>}
    /\ Targets(<< <<"d">>, <<"b">> >>) = {<< <<"d">>, <<"c">> >>}
    /\ files[<< <<"d">>, <<"c">> >>] = <<StageDirectionLine(<<"x">>)>>
    /\ Cardinality(DirectionsAt(<< <<"d">>, <<"c">> >>, 1)) = 2
    /\ violations = <<>>

(***************************************************************************)
(* Specification of includes that may form cycles among the files of two   *)
(* directories.  The parse is one thread that takes its next step whenever *)
(* it has one, and every file ends.                                        *)
(***************************************************************************)
LoopLines ==
    {FunctionLine("include", <<"d", "/", "b">>), FunctionLine("include", <<"c">>),
     FunctionLine("include", <<".", ".", "/", "a">>), StageDirectionLine(<<"x">>)}

WriteLoops == \E l \in LoopLines : WriteLine(l)

NextLoops ==
    \/ WriteLoops
    \/ CloseFile
    \/ CallInclude
    \/ IncludeDone
    \/ MatchStageDirection
    \/ ParseReturn

SpecLoops == InitDirs /\ [][NextLoops]_vars

SpecLoopsFair == SpecLoops /\ WF_vars(NextLoops)

\* no path is on the include stack twice
NoRepeat ==
    \A i, j \in 1..Len(include_stack) : include_stack[i] = include_stack[j] => i = j

(***************************************************************************)
(* C30: whatever the files include, in both modes, the include stack never *)
(* holds a path twice and so never more paths than there are files, and    *)
(* the parse comes to its end: it returns or it raises.                    *)
(***************************************************************************)
C30_Terminates ==
    /\ [](NoRepeat /\ Len(include_stack) <= Cardinality(DOMAIN files))
    /\ <>(status \in {"returned", "raised"})

\* files that include each other in a cycle: the stack held every file, and
\* the parse returned with the circular include recorded
C30_Witness ==
    /\ status = "returned"
    /\ Cyclic
    /\ \E i \in 1..Len(violations) :
        /\ violations[i].description.what = "circular_include"
        /\ violations[i].context.path = RootPath
        /\ violations[i].description.arg = as_posix(<< <<"d">>, <<"b">> >>)
    /\ Targets(<< <<"d">>, <<"c">> >>) = {RootPath}

(***************************************************************************)
(* C31: after the parse has raised, the include stack is empty: every path *)
(* pushed for an include that was being read is popped when the exception  *)
(* passes through it.                                                      *)
(***************************************************************************)
C31_StackRestored == status = "raised" => include_stack = <<>>

\* an include of a missing file, in the included file: the parse raised and
\* the path of the included file is still on the stack
C31_StackLeft ==
    /\ status = "raised"
    /\ error.what = "missing_include"
    /\ error.context.path = << <<"b">> >>
    /\ include_stack = <<as_posix(<< <<"b">> >>)>>

\* the act constructed first, 0 if there is none
FirstAct ==
    LET acts == {a \in Ids : heap[a].kind = "act"}
    IN  IF acts = {} THEN 0 ELSE CHOOSE a \in acts : \A b \in acts : a <= b

\* node id is a child of an act, or a child of a scene that is one
UnderAct(id) ==
    \E a \in Ids :
        /\ heap[a].kind = "act"
        /\ \/ ChildOf(id, a)
           \/ \E sc \in Ids : heap[sc].kind = "scene" /\ ChildOf(id, sc) /\ ChildOf(sc, a)

\* a Scene, StageDirection, Speaker or Dialogue node that a match leaves
Structural(id) ==
    /\ heap[id].kind \in {"scene", "stage_direction", "speaker", "dialogue"}
    /\ heap[id].text = None
    /\ \A p \in Ids : ChildOf(id, p) => heap[p].kind \in {"act", "scene"}

(***************************************************************************)
(* C32: once there is an act, current_act is set for the rest of the       *)
(* parse, the top-level list gains Act nodes only, and every Scene,        *)
(* StageDirection, Speaker and Dialogue node made after the first act is   *)
(* under an act.                                                           *)
(***************************************************************************)
C32_UnderActs ==
    FirstAct # 0 =>
        /\ current_act # 0
        /\ \A i \in 1..Len(nodes) :
                nodes[i] > FirstAct => heap[nodes[i]].kind = "act"
        /\ \A id \in Ids :
                id > FirstAct /\ Structural(id) /\ heap[id].kind # "act" => UnderAct(id)

\* a scene before the first act, the act, then a stage direction: it is a
\* child of the scene, which is at top level and under no act
C32_Stray ==
    \E id \in Ids :
        /\ FirstAct # 0
        /\ id > FirstAct
        /\ heap[id].kind = "stage_direction"
        /\ \E sc \in Ids : heap[sc].kind = "scene" /\ ChildOf(id, sc) /\ TopLevel(sc)
        /\ \A i \in 1..Len(nodes) : nodes[i] > FirstAct => heap[nodes[i]].kind = "act"

\* list t is list s with entries added at its end
GrowsAtEnd(s, t) == Len(s) <= Len(t) /\ SubSeq(t, 1, Len(s)) = s

\* the entries that list t has after the entries of list s
Added(s, t) == SubSeq(t, Len(s) + 1, Len(t))

(***************************************************************************)
(* C33: the top-level list and the children of every node only grow at     *)
(* their end, by nodes of the line the scan is at: no step inserts before, *)
(* removes or reorders a node that is in a list, so every list is in the   *)
(* order in which the scan, which reads an included file at its include    *)
(* line, came across the lines.                                            *)
(***************************************************************************)
C33_SourceOrder ==
    [][/\ GrowsAtEnd(nodes, nodes')
       /\ Len(heap) <= Len(heap')
       /\ \A id \in 1..Len(heap) :
            /\ GrowsAtEnd(heap[id].children, heap'[id].children)
            /\ heap'[id].kind = heap[id].kind
            /\ heap'[id].text = heap[id].text
            /\ heap'[id].context = heap[id].context
            /\ \A i \in 1..Len(Added(heap[id].children, heap'[id].children)) :
                    Added(heap[id].children, heap'[id].children)[i] > Len(heap)
       /\ \A i \in 1..Len(Added(nodes, nodes')) : Added(nodes, nodes')[i] > Len(heap)
       /\ \A id \in (Len(heap) + 1)..Len(heap') : heap'[id].context = MatchContext]_vars

\* the top-level list holds a node of line 1 of the root file, a node of the
\* included file, and a node of line 3 of the root file, after the include
C33_Witness ==
    /\ Len(nodes) = 3
    /\ heap[nodes[1]].context = Context(RootPath, 1)
    /\ heap[nodes[2]].context = Context(<< <<"b">> >>, 1)
    /\ heap[nodes[3]].context = Context(RootPath, 3)
    /\ status = "returned"

(***************************************************************************)
(* Specification of stage directions and dialogues among lines that no     *)
(* alternative of the top-level pattern matches                            *)
(***************************************************************************)
PlainLines ==
    {StageDirectionLine(<<"x">>), BareStageDirectionLine, PlainLine(<<"y">>), BlankLine,
     DialogueLine(<<"@", "h">>, <<"x">>)}

WritePlain == \E l \in PlainLines : WriteLine(l)

NextPlain ==
    \/ WritePlain
    \/ CloseFile
    \/ MatchStageDirection
    \/ MatchDialogue
    \/ ScanUnmatched
    \/ ParseReturn

SpecPlain == Init /\ [][NextPlain]_vars

(***************************************************************************)
(* C34: a line that no alternative matches and that is not in the body of  *)
(* a dialogue leaves no node and no violation and changes nothing of the   *)
(* engine; a block stage direction is one physical line, its node has the  *)
(* text of that line.                                                      *)
(***************************************************************************)
C34_UnmatchedLeavesNothing ==
    /\ last.op = "unmatched" =>
            /\ Len(heap) = last.nheap
            /\ Len(nodes) = last.nnodes
            /\ Len(violations) = last.nviol
            /\ play_name = last.name
            /\ current_act = last.act
            /\ current_scene = last.scene
            /\ include_stack = last.stack
    /\ last.op = "stage_direction" /\ status = "running" =>
            Top.pos = last.context.lineno + 1
    /\ \A id \in Ids :
            heap[id].kind = "stage_direction" =>
                Children(id) = DirectionShapes(LineAt(heap[id].context).b)

\* the line ">" and then the line "y": one stage direction over both lines,
\* with the text of the second
C34_TwoLines ==
    /\ last.op = "stage_direction"
    /\ status = "running"
    /\ LineAt(last.context) = BareStageDirectionLine
    /\ Top.pos = last.context.lineno + 2
    /\ Children(last.new[1]) = <<Leaf("text", <<"y">>)>>

(***************************************************************************)
(* Specification of play titles, metadata lines and introductions inside   *)
(* acts, scenes and included files                                         *)
(***************************************************************************)
FrameLines ==
    {PlayNameLine(<<"P">>), MetadataLine(<<"k">>, <<"1">>),
     FunctionLine("introduce", <<"h", ";", "N">>), ActNameLine(<<"x">>),
     SceneNameLine(<<"x">>), FunctionLine("include", <<"b">>)}

WriteFrame == \E l \in FrameLines : WriteLine(l)

NextFrame ==
    \/ WriteFrame
    \/ CloseFile
    \/ MatchPlayName
    \/ MatchMetadata
    \/ CallIntroduce
    \/ MatchActName
    \/ MatchSceneName
    \/ CallInclude
    \/ IncludeDone
    \/ ParseReturn

SpecFrame == Init /\ [][NextFrame]_vars

(***************************************************************************)
(* C35: the step of a metadata line, of a play title and of an introduce   *)
(* call adds no node and leaves the node tree, the current act, the        *)
(* current scene and the include stack as they are; a metadata line also   *)
(* leaves the name and the characters, an introduce call the name and the  *)
(* metadata.                                                               *)
(***************************************************************************)
C35_NoNodeNoCursor ==
    [][last'.op \in {"metadata", "play_name", "introduce"} =>
        /\ UNCHANGED <<flow, compact_flow, heap, nodes, current_act, current_scene, include_stack>>
        /\ last'.op = "metadata" => UNCHANGED <<flow, compact_flow, play_name, characters>>
        /\ last'.op = "introduce" => UNCHANGED <<flow, compact_flow, play_name, metadata>>]_vars

\* in a scene of an act of an included file: an introduction, a play title
\* or a metadata line was read and the cursors and the stack are set
C35_Witness ==
    /\ last.op \in {"metadata", "play_name", "introduce"}
    /\ last.context.path = << <<"b">> >>
    /\ current_act # 0
    /\ current_scene # 0
    /\ include_stack # <<>>
    /\ Len(heap) = last.nheap
    /\ last.act = current_act
    /\ last.scene = current_scene

(***************************************************************************)
(* Specification of introductions, of mentions and speakers of handles     *)
(* that are or are not introduced, and of includes                         *)
(***************************************************************************)
RegistryLines ==
    {FunctionLine("introduce", <<"h", ";", "N">>),
     FunctionLine("introduce", <<"g", ";", "M">>),
     StageDirectionLine(<<"@", "h">>), DialogueLine(<<"@", "g">>, <<"x">>),
     FunctionLine("include", <<"b">>)}

WriteRegistry == \E l \in RegistryLines : WriteLine(l)

NextRegistry ==
    \/ WriteRegistry
    \/ CloseFile
    \/ CallIntroduce
    \/ MatchStageDirection
    \/ MatchDialogue
    \/ CallInclude
    \/ IncludeDone
    \/ ParseReturn

SpecRegistry == Init /\ [][NextRegistry]_vars

\* the handles that the introduce lines of the files of P introduce
IntroducedIn(P) ==
    UNION {{Arguments(files[p][i])[1] :
                i \in {j \in 1..Len(files[p]) : IsIntroduce(files[p][j])}} : p \in P}

\* when the parse has returned, the registry holds the handles that the root
\* file and the files it reaches by includes introduce
RegistryComplete ==
    status = "returned" =>
        DOMAIN characters = IntroducedIn(ReachableFrom({RootPath}))

(***************************************************************************)
(* C36: the registry changes in the step of an introduce call only, which  *)
(* registers the handle of the call; a stage direction or a dialogue, with *)
(* handles the registry holds or not, leaves the registry as it is, so the *)
(* registered handles are the handles introduced so far, in the root file  *)
(* and in the included files that were read.                               *)
(***************************************************************************)
C36_OnlyIntroduce ==
    [][/\ IF last'.op = "introduce" /\ last' # last
          THEN /\ DOMAIN characters' = DOMAIN characters \cup {last'.arg}
               /\ \A h \in DOMAIN characters :
                    h # last'.arg => characters'[h] = characters[h]
               /\ Arguments(files[last'.context.path][last'.context.lineno])[1]
                    = last'.arg
          ELSE characters' = characters
       /\ RegistryComplete']_vars

\* the included file introduces g, the root file h; a mention and a speaker
\* of handles that were not introduced yet came before
C36_Witness ==
    /\ status = "returned"
    /\ DOMAIN characters = {<<"h">>, <<"g">>}
    /\ characters[<<"g">>].context.path = << <<"b">> >>
    /\ characters[<<"h">>].context.path = RootPath
    /\ \E i \in 1..Len(violations) : Warns(violations[i], "mentioned")

(***************************************************************************)
(* Specification of stage directions whose text has an "@" that no handle  *)
(* follows, next to stage directions with mentions                         *)
(***************************************************************************)
StrayLines ==
    {StageDirectionLine(<<"@", " ", "x">>),
     StageDirectionLine(<<"x", " ", "@", " ", "y">>),
     StageDirectionLine(<<"x", "@">>),
     StageDirectionLine(<<"a", "@", "@", "h">>),
     StageDirectionLine(<<"@", "h", " ", "x">>),
     StageDirectionLine(<<"@", "(", "F", ")", "h">>)}

WriteStray == \E l \in StrayLines : WriteLine(l)

NextStray ==
    \/ WriteStray
    \/ CloseFile
    \/ MatchStageDirection
    \/ ParseReturn

SpecStray == Init /\ [][NextStray]_vars

\* the child id of a stage direction as the author writes it
WrittenNode(id) ==
    CASE heap[id].kind = "mention" -> <<"@">> \o heap[id].text
      [] heap[id].kind = "mention_with_declension" ->
            <<"@", "(">> \o heap[heap[id].children[2]].text \o <<")">>
                \o heap[heap[id].children[1]].text
      [] OTHER -> heap[id].text

RECURSIVE WrittenNodes(_)
WrittenNodes(ids) ==
    IF ids = <<>> THEN <<>> ELSE WrittenNode(Head(ids)) \o WrittenNodes(Tail(ids))

(***************************************************************************)
(* C37: the children of a StageDirection node, written one after the other *)
(* (a Text as its text, a Mention as "@" and the handle, a                 *)
(* MentionWithDeclension as "@(", the form, ")" and the handle), are the   *)
(* text of the stage direction, also when the text has an "@" that no      *)
(* handle character follows.                                               *)
(***************************************************************************)
C37_NoTextLost ==
    \A id \in Ids :
        heap[id].kind = "stage_direction" =>
            WrittenNodes(heap[id].children) = LineAt(heap[id].context).b

\* "> @ x": the one child is the Text "x", the "@" and the blank are in no
\* node
C37_Lost ==
    /\ last.op = "stage_direction"
    /\ LineAt(last.context).b = <<"@", " ", "x">>
    /\ Children(last.new[1]) = <<Leaf("text", <<"x">>)>>

(***************************************************************************)
(* StageScript.flatten                                                     *)
(***************************************************************************)
\* _iter_children that yields the node before its children
RECURSIVE _iter_children_pre(_), IterPre(_)
IterPre(children) ==
    IF children = <<>> THEN <<>>
    ELSE _iter_children_pre(Head(children)) \o IterPre(Tail(children))

_iter_children_pre(node) == <<node>> \o IterPre(heap[node].children)

\* the loop of _iter_children over node.children
RECURSIVE _iter_children(_), IterChildNodes(_)
IterChildNodes(children) ==
    IF children = <<>> THEN <<>>
    ELSE LET child_node == Head(children)
         IN  (IF heap[child_node].children # <<>>
              THEN _iter_children(child_node)
              ELSE <<child_node>>) \o IterChildNodes(Tail(children))

\* list(_iter_children(node)), as ids of the heap
_iter_children(node) == IterChildNodes(heap[node].children) \o <<node>>

RECURSIVE FlattenNodes(_)
FlattenNodes(ns) ==
    IF ns = <<>> THEN <<>> ELSE _iter_children(Head(ns)) \o FlattenNodes(Tail(ns))

\* list(script.flatten()) of the StageScript of the engine's state
flatten == FlattenNodes(nodes)

\* acts, scenes, stage directions with a declined mention and dialogues with
\* an inline stage direction
DeepLines ==
    {ActNameLine(<<"x">>), SceneNameLine(<<"x">>),
     StageDirectionLine(<<"@", "(", "F", ")", "h", " ", "x">>),
     StageDirectionLine(<<"x">>),
     DialogueLine(<<"@", "h">>, <<"x", "{", "@", "h", "}">>)}

WriteDeep == \E l \in DeepLines : WriteLine(l)

NextDeep ==
    \/ WriteDeep
    \/ CloseFile
    \/ MatchActName
    \/ MatchSceneName
    \/ MatchStageDirection
    \/ MatchDialogue
    \/ ParseReturn

SpecDeep == Init /\ [][NextDeep]_vars

\* the node id and the nodes under it, at any depth
RECURSIVE Under(_)
Under(id) ==
    {id} \cup UNION {Under(heap[id].children[i]) : i \in 1..Len(heap[id].children)}

\* the nodes of the document tree
InTree == UNION {Under(nodes[i]) : i \in 1..Len(nodes)}

\* the places of id in seq
Places(seq, id) == {i \in 1..Len(seq) : seq[i] = id}

\* every place of a is before every place of b
Before(seq, a, b) == \A i \in Places(seq, a) : \A j \in Places(seq, b) : i < j

\* in seq, the nodes of list are in the order of the list, each after the
\* whole of the subtree of the one before
InListOrder(seq, list) ==
    \A i \in 1..Len(list) : \A j \in 1..Len(list) :
        i < j => \A d \in Under(list[j]) : Before(seq, list[i], d)

(***************************************************************************)
(* C38: flatten yields every node of the tree, and each once; every node   *)
(* comes after all the nodes under it, and siblings (and the top-level     *)
(* nodes) come in list order, each subtree as a whole; so for trees of any *)
(* depth.                                                                  *)
(***************************************************************************)
C38_PostOrder ==
    /\ \A id \in InTree : Cardinality(Places(flatten, id)) = 1
    /\ Len(flatten) = Cardinality(InTree)
    /\ \A id \in InTree : \A d \in Under(id) \ {id} : Before(flatten, d, id)
    /\ \A id \in InTree : InListOrder(flatten, heap[id].children)
    /\ InListOrder(flatten, nodes)

\* an act with a scene with a stage direction with a declined mention: five
\* levels; the act is the last of the flattened list
C38_Witness ==
    /\ status = "returned"
    /\ Len(nodes) = 1
    /\ heap[nodes[1]].kind = "act"
    /\ current_scene \in Under(current_act) \ {current_act}
    /\ \E id \in Under(current_scene) : heap[id].kind = "declension"
    /\ \E id \in Under(current_scene) : heap[id].kind = "inline_stage_direction"
    /\ flatten[Len(flatten)] = nodes[1]
    /\ Len(flatten) >= 10

(***************************************************************************)
(* The legacy line parser: StagescriptParser.flow and postprocess          *)
(***************************************************************************)
DocumentFlowItem(context, kind, content) ==
    [context |-> context, kind |-> kind, content |-> content]

compactible_kinds == {"DIALOGUE", "INLINE_STAGE_DIRECTION", "STAGE_DIRECTION"}

\* _get_str of character_aware_join over strings[i..], broken is
\* line_breaks["broken"]
RECURSIVE JoinFrom(_, _, _, _)
JoinFrom(sep, strings, i, broken) ==
    IF i > Len(strings) THEN <<>>
    ELSE LET string == strings[i]
         IN  IF i = 1 THEN string \o JoinFrom(sep, strings, i + 1, broken)
             ELSE IF string = <<>>
             THEN (IF broken THEN <<>> ELSE <<NL>>)
                  \o JoinFrom(sep, strings, i + 1, TRUE)
             ELSE IF string[1] \in Alnum
             THEN (IF broken THEN string ELSE sep \o string)
                  \o JoinFrom(sep, strings, i + 1, FALSE)
             ELSE string \o JoinFrom(sep, strings, i + 1, broken)

character_aware_join(sep, strings) == JoinFrom(sep, strings, 1, FALSE)

\* RelatedDocuments that takes the one next item at most
RelatedOne(self_flow, kind, i) ==
    IF i <= Len(self_flow) /\ self_flow[i].kind = kind
    THEN <<self_flow[i]>> ELSE <<>>

\* related_documents: the items of self.flow from place i on that have the
\* kind, up to the first of another kind
RECURSIVE RelatedDocuments(_, _, _)
RelatedDocuments(self_flow, kind, i) ==
    IF i <= Len(self_flow) /\ self_flow[i].kind = kind
    THEN <<self_flow[i]>> \o RelatedDocuments(self_flow, kind, i + 1)
    ELSE <<>>

\* the while loop of _compact from doc_index on (places count from 1)
RECURSIVE CompactFrom(_, _, _)
CompactFrom(self_flow, fl, doc_index) ==
    IF doc_index > Len(fl) THEN <<>>
    ELSE LET document == fl[doc_index]
             related_documents ==
                IF document.kind \in compactible_kinds
                THEN RelatedDocuments(self_flow, document.kind, doc_index + 1)
                ELSE <<>>
             docs == <<document>> \o related_documents
             joined_document ==
                DocumentFlowItem(
                    document.context, document.kind,
                    character_aware_join(
                        <<" ">>, [i \in 1..Len(docs) |-> Strip(docs[i].content)]))
         IN  IF related_documents = <<>>
             THEN <<document>> \o CompactFrom(self_flow, fl, doc_index + 1)
             ELSE <<joined_document>>
                  \o CompactFrom(self_flow, fl,
                                 doc_index + Len(related_documents) + 1)

\* self._compact(fl) of a parser whose flow is self_flow
_compact(self_flow, fl) == CompactFrom(self_flow, fl, 1)

FlowKinds == compactible_kinds \cup {"SPEAKER"}

FlowContents == {<<"x">>, <<>>}

\* self.flow.append(DocumentFlowItem(...)) for the next line of the file
AppendItem ==
    /\ Len(flow) < MaxLines
    /\ \E kind \in FlowKinds : \E content \in FlowContents :
        flow' = Append(flow,
                       DocumentFlowItem([path |-> RootPath, lineno |-> Len(flow) + 1],
                                        kind, content))
    /\ last' = [NoMatch EXCEPT !.op = "append"]
    /\ UNCHANGED <<compact_flow, dry_run, files, closed, frames, status, error,
                   play_name, metadata, characters, violations, include_stack,
                   current_act, current_scene, heap, nodes, earlier>>

\* compact_flow = parser.postprocess()
Postprocess ==
    /\ compact_flow' = _compact(flow, flow)
    /\ last' = [NoMatch EXCEPT !.op = "postprocess"]
    /\ UNCHANGED <<flow, dry_run, files, closed, frames, status, error,
                   play_name, metadata, characters, violations, include_stack,
                   current_act, current_scene, heap, nodes, earlier>>

NextCompact ==
    \/ AppendItem
    \/ Postprocess

SpecCompact == Init /\ [][NextCompact]_vars

\* place i is the first of a run of fl: of a maximal run of adjacent items of
\* one compactible kind, or an item of another kind
IsRunStart(fl, i) ==
    \/ i = 1
    \/ fl[i].kind \notin compactible_kinds
    \/ fl[i].kind # fl[i - 1].kind

\* the first places of the runs of fl, in order
RunStarts(fl) ==
    SelectSeq([i \in 1..Len(fl) |-> i], LAMBDA i : IsRunStart(fl, i))

\* out has one item per run of fl, with the context and kind of the first
\* item of the run; an item of a kind that is not compactible is kept as it
\* is; no two neighbours of out have the same compactible kind
CompactedTo(fl, out) ==
    LET starts == RunStarts(fl)
    IN  /\ Len(out) = Len(starts)
        /\ \A k \in 1..Len(starts) :
                /\ out[k].context = fl[starts[k]].context
                /\ out[k].kind = fl[starts[k]].kind
                /\ fl[starts[k]].kind \notin compactible_kinds =>
                        out[k] = fl[starts[k]]
        /\ \A k \in 1..(Len(out) - 1) :
                out[k].kind \in compactible_kinds => out[k].kind # out[k + 1].kind

(***************************************************************************)
(* C39: postprocess of the legacy line parser returns one item for every   *)
(* maximal run of adjacent items of one compactible kind (DIALOGUE,        *)
(* INLINE_STAGE_DIRECTION, STAGE_DIRECTION), with the context of the first *)
(* item of the run; items of other kinds are kept as they are and in       *)
(* order; no two neighbours of the result have the same compactible kind;  *)
(* the flow of the parser is as it was.                                    *)
(***************************************************************************)
C39_Compacts ==
    [][last'.op = "postprocess" =>
            /\ flow' = flow
            /\ CompactedTo(flow, compact_flow')]_vars

\* three stage directions and a speaker become two items, the first with the
\* context of the first stage direction and the joined content
C39_Witness ==
    /\ last.op = "postprocess"
    /\ Len(flow) = 4
    /\ \A i \in 1..3 : flow[i].kind = "STAGE_DIRECTION" /\ flow[i].content = <<"x">>
    /\ flow[4].kind = "SPEAKER"
    /\ compact_flow =
            <<DocumentFlowItem([path |-> RootPath, lineno |-> 1], "STAGE_DIRECTION",
                               <<"x", " ", "x", " ", "x">>),
              flow[4]>>

====
